---- MODULE Spec2Model ----
(***************************************************************************)
(* Model of the transfer orchestrator of rdma-burst (TransferService),    *)
(* the process supervisor (ProcessManager) and the log monitor            *)
(* (TransferMonitor).                                                      *)
(*                                                                         *)
(* Time is counted in ticks of 500 ms, the period of the readiness poll   *)
(* of PrepareTransfer.  A time stamp is kept as the age of the stamp.     *)
(* The statements of a call take no time: a call that can go on does so   *)
(* before the next tick; time passes in time.Sleep, in the waits of       *)
(* ProcessManager.Stop, while a caller waits for ts.mu and between calls. *)
(*                                                                         *)
(* An operating-system process spawned by the service is "alive", a      *)
(* "zombie" (it has exited and nobody has waited for it yet: it still     *)
(* sits in the process table, and a signal sent to it is accepted) or     *)
(* "reaped" (Wait has returned).  Only Wait turns a zombie into a reaped  *)
(* process; os/exec starts no waiter of its own for a command whose       *)
(* context is context.Background() and whose output goes to a file.       *)
(***************************************************************************)
EXTENDS Integers, Sequences, FiniteSets, TLC

\* ------------------------------------------------------------------ bounds
NumCallers == 2
MaxProcs == 2
MaxTasks == 2
MaxClock == 2
MaxConcurrentCfg == 1
MaxLineLen == 2
MaxPathLen == 4
IntBits == 6
MaxSize == 4
MaxLines == 2

\* ------------------------------------------------------- program constants
PollTimeoutTicks == 10
SettleTicks == 4
StopGraceTicks == 20
ConnTimeoutTicks == 20

Callers == 1..NumCallers
ProcIds == 1..MaxProcs

Modes == {"hugepages", "tmpfs", "filesystem"}
Directions == {"put", "get"}

\* Inputs of a request: a mode or direction outside the closed sets is "other".
ReqModes == Modes \cup {"other"}
ReqDirections == Directions \cup {"other"}

VARIABLES
  maxConcurrent,      \* ts.maxConcurrent
  singleTransfer,     \* ts.singleTransfer
  requireReconnect,   \* ts.requireReconnect
  serverConfig,       \* ts.serverConfig: nil, or mode -> its base directory is non-empty
  mu,                 \* ts.mu: 0 when free, else the caller holding it for writing
  activeTasks,        \* ts.activeTasks: task ID -> index of the wrapper in tasks
  taskHistory,        \* ts.taskHistory: sequence of indices into tasks
  activeConnections,  \* ts.activeConnections: connection key -> age of its time stamp
  serverProcesses,    \* ts.serverProcesses: mode -> index of the supervisor in procs
  procs,              \* the ProcessManager objects of the listeners, with their OS process
  tasks,              \* the TransferTask wrappers that a polling worker keeps alive
  pc,                 \* per caller: where it stands in PrepareTransfer
  call,               \* per caller: the locals of its PrepareTransfer call
  slept,              \* ticks the lock holder has slept in the settle delay
  sinceStart,         \* the direction and the age of the last start call that was admitted
  last,               \* the call that returned last, and what it returned
  pmInfo,             \* one ProcessManager on its own: pm.info, and whether pm.process is set
  child,              \* the operating-system process that supervisor started
  worker,             \* its monitorProcess goroutine: position and the result of its Wait
  stopCall,           \* its Stop call in progress (pm.mu is held from begin to return)
  supLast,            \* the supervisor call that returned last, and what it returned
  supCalled,          \* which of Stop and Cleanup have been called on a started process
  monitor,            \* one TransferMonitor on its own: tm.progress, isMonitoring, stopChan
  logFile,            \* the log file it tails: whether it exists, and its complete lines
  mworker,            \* its monitorLogFile goroutine: position, and the state of its scanner
  fn                  \* the call of a function made last: its name, argument and result

vars == <<maxConcurrent, singleTransfer, requireReconnect, serverConfig, mu,
          activeTasks, taskHistory, activeConnections, serverProcesses, procs,
          tasks, pc, call, slept, sinceStart, last,
          pmInfo, child, worker, stopCall, supLast, supCalled,
          monitor, logFile, mworker, fn>>

monVars == <<monitor, logFile, mworker>>
supVars == <<pmInfo, child, worker, stopCall, supLast, supCalled>>
svcVars == <<mu, activeTasks, taskHistory, activeConnections, serverProcesses, procs,
             tasks, pc, call, slept, sinceStart, last>>
cfgVars == <<maxConcurrent, singleTransfer, requireReconnect, serverConfig>>
taskVars == <<activeTasks, taskHistory, activeConnections, tasks, sinceStart>>

Min(a, b) == IF a < b THEN a ELSE b

\* ------------------------------------------------------ process supervisor

\* A free slot of the heap of supervisors.
NoProc == [State |-> "none"]

\* NewProcessManager followed by a successful Start of a listener command:
\* no exit-wait worker is started for it.
StartedProcess ==
  [State |-> "running", hasProcess |-> TRUE, ExitTime |-> FALSE,
   ExitCode |-> FALSE, Error |-> FALSE, os |-> "alive"]

\* process.Signal(syscall.Signal(0)) == nil: the process is in the process table.
Probe(os) == os \in {"alive", "zombie"}

\* IsRunning with the result of the probe taken the wrong way round.
IsRunningInverted(p) ==
  /\ p.State = "running"
  /\ p.hasProcess
  /\ ~p.ExitTime
  /\ ~Probe(p.os)

IsRunning(p) ==
  /\ p.State = "running"
  /\ p.hasProcess
  /\ ~p.ExitTime
  /\ Probe(p.os)

\* What Stop leaves behind once Wait has returned.
Finalized(p, state, code) ==
  [p EXCEPT !.State = state, !.ExitTime = TRUE, !.ExitCode = code,
            !.Error = (state = "error"), !.hasProcess = FALSE, !.os = "reaped"]

\* Stop without the Kill that follows the expiry of the grace.
StopNoKill(p) ==
  IF ~p.hasProcess \/ p.State # "running"
  THEN {[info |-> p, err |-> TRUE, waited |-> 0]}
  ELSE CASE p.os = "reaped" ->
              {[info |-> [p EXCEPT !.State = "error", !.Error = TRUE],
                err |-> TRUE, waited |-> 0]}
         [] p.os = "zombie" ->
              {[info |-> Finalized(p, s, s = "error"), err |-> FALSE, waited |-> 0] :
                 s \in {"stopped", "error"}}
         [] OTHER ->
              {[info |-> Finalized(p, s, s = "error"), err |-> FALSE, waited |-> 0] :
                 s \in {"stopped", "error"}}
              \cup
              {[info |-> [Finalized(p, "stopped", FALSE) EXCEPT !.os = "alive"],
                err |-> FALSE, waited |-> StopGraceTicks]}

\* ProcessManager.Stop: the set of its outcomes [info, err, waited], waited
\* being the ticks the call blocked.  The exit status Wait returns, and
\* whether the executable ends on the interrupt within the grace, are the
\* executable's choice.
Stop(p) ==
  IF ~p.hasProcess \/ p.State # "running"
  THEN {[info |-> p, err |-> TRUE, waited |-> 0]}
  ELSE CASE p.os = "reaped" ->
              \* Signal and Kill both fail on a process already waited for
              {[info |-> [p EXCEPT !.State = "error", !.Error = TRUE],
                err |-> TRUE, waited |-> 0]}
         [] p.os = "zombie" ->
              \* Wait returns the exit status at once: clean, or not
              {[info |-> Finalized(p, s, s = "error"), err |-> FALSE, waited |-> 0] :
                 s \in {"stopped", "error"}}
         [] OTHER ->
              \* the process ends within the grace, cleanly or by the signal
              {[info |-> Finalized(p, s, s = "error"), err |-> FALSE, waited |-> 0] :
                 s \in {"stopped", "error"}}
              \cup
              \* or the grace expires: Kill, then wait for the end
              {[info |-> Finalized(p, "stopped", FALSE), err |-> FALSE,
                waited |-> StopGraceTicks]}
              \cup
              \* or the process ends as the grace expires and the select takes
              \* the timer: Kill fails on the process already waited for
              {[info |-> [p EXCEPT !.State = "error", !.Error = TRUE, !.os = "reaped"],
                err |-> TRUE, waited |-> StopGraceTicks]}

\* ProcessManager.Cleanup: the context is cancelled before the select, so the
\* select takes ctx.Done() at once and the 5 second branch with Kill never runs.
\* The interrupt it sends to a running process is left to the process, whose
\* exit is a step of its own.
Cleanup(p) ==
  [p EXCEPT !.hasProcess = FALSE, !.State = "stopped"]

\* ------------------------------------------------------------ orchestrator

EmptyMap == [x \in {} |-> 0]
MapDelete(f, k) == [x \in DOMAIN f \ {k} |-> f[x]]
MapPut(f, k, v) == [x \in DOMAIN f \cup {k} |-> IF x = k THEN v ELSE f[x]]
Range(f) == {f[x] : x \in DOMAIN f}

\* The locals of a caller that is not inside PrepareTransfer.  switched
\* records, up to the end of ensureServerProcessStarted, that the call has
\* stopped the listener of another mode.
NoCall == [mode |-> "", pm |-> 0, elapsed |-> 0, tickReady |-> FALSE, switched |-> FALSE]

\* ValidateConfig without the test of the file name.
ValidateConfigNoFilename(cfg) ==
  IF ~cfg.Device THEN "device-empty"
  ELSE IF ~cfg.Directory THEN "directory-empty"
  ELSE IF ~cfg.LogFile THEN "logfile-empty"
  ELSE IF cfg.Mode \notin Modes THEN "unsupported-mode"
  ELSE IF cfg.Direction = "" THEN "nil"
  ELSE IF cfg.Direction \notin Directions THEN "unsupported-direction"
  ELSE IF ~cfg.ServerAddress THEN "address-empty"
  ELSE "nil"

\* RtranfileWrapper.ValidateConfig on a configuration whose strings are given
\* by whether they are non-empty: "nil" or the first error met.
ValidateConfig(cfg) ==
  IF ~cfg.Device THEN "device-empty"
  ELSE IF ~cfg.Directory THEN "directory-empty"
  ELSE IF ~cfg.LogFile THEN "logfile-empty"
  ELSE IF cfg.Mode \notin Modes THEN "unsupported-mode"
  ELSE IF cfg.Direction = "" THEN "nil"
  ELSE IF cfg.Direction \notin Directions THEN "unsupported-direction"
  ELSE IF ~cfg.ServerAddress THEN "address-empty"
  ELSE IF ~cfg.Filename THEN "filename-empty"
  ELSE "nil"

\* The base directory ensureServerProcessStarted takes for a mode is non-empty:
\* the defaults when ts.serverConfig is nil, else the configured directory.
BaseDirOK(m) == IF serverConfig.isNil THEN TRUE ELSE serverConfig.BaseDir[m]

\* Supervisors nobody refers to any more and whose process has ended are
\* garbage: their slot is free again.
Collect(pr, sp, cl) ==
  [i \in ProcIds |->
     IF /\ pr[i] # NoProc
        /\ i \notin Range(sp)
        /\ \A c \in Callers : cl[c].pm # i
        /\ pr[i].os # "alive"
     THEN NoProc ELSE pr[i]]

\* k ticks pass for a caller: its poll timer runs, and a tick of its ticker
\* is pending (the ticker's channel holds one tick).
AdvanceCall(cl, k) ==
  [c \in Callers |->
     IF pc[c] \in {"poll", "rlock"} /\ k > 0
     THEN [cl[c] EXCEPT !.elapsed = Min(PollTimeoutTicks, @ + k), !.tickReady = TRUE]
     ELSE cl[c]]

\* k ticks pass while ts.mu is held: a caller in the select of the readiness
\* loop takes the first tick and blocks in RLock, unless the 5 second timer
\* fires with that tick (the select then takes either).
BlockPollers(p, cl, k) ==
  [c \in Callers |->
     IF p[c] = "poll" /\ k > 0 /\ cl[c].elapsed + 1 < PollTimeoutTicks
     THEN "rlock" ELSE p[c]]
AdvanceAges(f, k) == [x \in DOMAIN f |-> Min(ConnTimeoutTicks, f[x] + k)]
AdvanceSince(s, k) ==
  IF s.direction = "" THEN s ELSE [s EXCEPT !.age = Min(ConnTimeoutTicks, @ + k)]

Returned(op, res) == [op |-> op, result |-> res]

\* PrepareTransfer up to the call of ensureServerProcessStarted:
\* buildTransferConfig rejects a mode or a direction outside the closed sets.
PrepareTransfer(c, mode, direction) ==
  /\ pc[c] = "idle"
  /\ \A c2 \in Callers : c2 < c => pc[c2] # "idle"   \* callers are interchangeable
  /\ IF mode \notin Modes
     THEN /\ last' = Returned("prepare", "unsupported-mode")
          /\ UNCHANGED <<pc, call>>
     ELSE IF direction \notin Directions
     THEN /\ last' = Returned("prepare", "unsupported-direction")
          /\ UNCHANGED <<pc, call>>
     ELSE /\ pc' = [pc EXCEPT ![c] = "ensure"]
          /\ call' = [call EXCEPT ![c] = [NoCall EXCEPT !.mode = mode]]
          /\ UNCHANGED last
  /\ UNCHANGED <<cfgVars, supVars, monVars, fn, taskVars, mu, serverProcesses, procs, slept>>

\* ensureServerProcessStarted without the loop that stops the other modes.
OtherModesRunningNone(sp, m) == {}

\* The modes ensureServerProcessStarted stops before it starts mode m: every
\* other mode of the registry whose supervisor reports running.
OtherModesRunning(sp, m) == {k \in DOMAIN sp : k # m /\ IsRunning(procs[sp[k]])}

\* ensureServerProcessStarted from taking the lock to the start of the settle
\* delay (or to its return, when it returns before).  devOK: the device of the
\* call's settings is non-empty; it is read here for the first time.
EnsureBegin(c, devOK) ==
  /\ pc[c] = "ensure"
  /\ mu = 0
  /\ LET m == call[c].mode
         same == m \in DOMAIN serverProcesses
     IN
     IF same /\ IsRunning(procs[serverProcesses[m]])
     THEN \* already running: nothing to do, the caller goes on to poll
          /\ pc' = [pc EXCEPT ![c] = "poll"]
          /\ UNCHANGED <<cfgVars, supVars, monVars, fn, taskVars, mu, serverProcesses, procs, call, slept, last>>
     ELSE
       LET sp1 == IF same THEN MapDelete(serverProcesses, m) ELSE serverProcesses
           others == OtherModesRunning(sp1, m)
       IN
       \E stops \in [others -> UNION {Stop(procs[sp1[k]]) : k \in others}] :
         /\ \A k \in others : stops[k] \in Stop(procs[sp1[k]])
         /\ LET stopped == [i \in ProcIds |->
                              IF \E k \in others : sp1[k] = i
                              THEN stops[CHOOSE k \in others : sp1[k] = i].info
                              ELSE procs[i]]
                sp2 == [k \in DOMAIN sp1 \ others |-> sp1[k]]
                waited == IF \E k \in others : stops[k].waited > 0
                          THEN StopGraceTicks ELSE 0
                cfg == [Device |-> devOK, Directory |-> BaseDirOK(m),
                        LogFile |-> TRUE, Mode |-> m, Direction |-> "",
                        ServerAddress |-> FALSE, Filename |-> FALSE]
                pr2 == Collect(stopped, sp2, call)
                free == {i \in ProcIds : pr2[i] = NoProc}
            IN
            /\ activeConnections' = AdvanceAges(activeConnections, waited)
            /\ sinceStart' = AdvanceSince(sinceStart, waited)
            /\ UNCHANGED <<cfgVars, supVars, monVars, fn, activeTasks, taskHistory, tasks, slept>>
            /\ \/ \* the listener configuration is invalid
                  /\ ValidateConfig(cfg) # "nil"
                  /\ procs' = pr2
                  /\ serverProcesses' = sp2
                  /\ pc' = [BlockPollers(pc, call, waited) EXCEPT ![c] = "idle"]
                  /\ call' = [AdvanceCall(call, waited) EXCEPT ![c] = NoCall]
                  /\ last' = Returned("prepare", "invalid-config")
                  /\ mu' = 0
               \/ \* StartServer fails (directory, log file), or cmd.Start fails
                  /\ ValidateConfig(cfg) = "nil"
                  /\ procs' = pr2
                  /\ serverProcesses' = sp2
                  /\ pc' = [BlockPollers(pc, call, waited) EXCEPT ![c] = "idle"]
                  /\ call' = [AdvanceCall(call, waited) EXCEPT ![c] = NoCall]
                  /\ last' = Returned("prepare", "start-failed")
                  /\ mu' = 0
               \/ \* the listener is spawned and registered; the settle delay begins
                  /\ ValidateConfig(cfg) = "nil"
                  /\ free # {}
                  /\ LET i == CHOOSE j \in free : \A j2 \in free : j <= j2
                     IN /\ procs' = [pr2 EXCEPT ![i] = StartedProcess]
                        /\ serverProcesses' = MapPut(sp2, m, i)
                        /\ call' = [AdvanceCall(call, waited) EXCEPT
                                      ![c].pm = i, ![c].switched = (others # {})]
                  /\ pc' = [BlockPollers(pc, call, waited) EXCEPT ![c] = "settle"]
                  /\ mu' = c
                  /\ UNCHANGED last

\* ensureServerProcessStarted after time.Sleep(2 * time.Second).
EnsureSettle(c) ==
  /\ pc[c] = "settle"
  /\ mu = c
  /\ slept = SettleTicks
  /\ slept' = 0
  /\ mu' = 0
  /\ IF ~IsRunning(procs[call[c].pm])
     THEN /\ pc' = [pc EXCEPT ![c] = "idle"]
          /\ call' = [call EXCEPT ![c] = NoCall]
          /\ last' = Returned("prepare", "early-exit")
     ELSE /\ pc' = [pc EXCEPT ![c] = "poll"]
          /\ call' = [call EXCEPT ![c].pm = 0, ![c].switched = FALSE]
          /\ UNCHANGED last
  /\ UNCHANGED <<cfgVars, supVars, monVars, fn, taskVars, serverProcesses, procs>>

\* The readiness check looking at the listener of any mode.
ReadyAnyMode(m) == \E k \in DOMAIN serverProcesses : IsRunning(procs[serverProcesses[k]])

\* exists && processMgr.IsRunning() for the entry of mode m.
Ready(m) == m \in DOMAIN serverProcesses /\ IsRunning(procs[serverProcesses[m]])

\* The check of one turn of the readiness loop, under the read lock.
PollCheck(c) ==
  IF Ready(call[c].mode)
     THEN /\ pc' = [pc EXCEPT ![c] = "idle"]
          /\ call' = [call EXCEPT ![c] = NoCall]
          /\ last' = Returned("prepare", "nil")
     ELSE /\ pc' = [pc EXCEPT ![c] = "poll"]
          /\ UNCHANGED <<call, last>>

\* The readiness loop of PrepareTransfer takes a tick of its ticker: it makes
\* its check, or waits for the lock when a writer holds it.
PollTick(c) ==
  /\ pc[c] = "poll"
  /\ call[c].tickReady
  /\ IF mu = 0
     THEN IF Ready(call[c].mode)
          THEN /\ pc' = [pc EXCEPT ![c] = "idle"]
               /\ call' = [call EXCEPT ![c] = NoCall]
               /\ last' = Returned("prepare", "nil")
          ELSE /\ call' = [call EXCEPT ![c].tickReady = FALSE]
               /\ UNCHANGED <<pc, last>>
     ELSE /\ pc' = [pc EXCEPT ![c] = "rlock"]
          /\ call' = [call EXCEPT ![c].tickReady = FALSE]
          /\ UNCHANGED last
  /\ UNCHANGED <<cfgVars, supVars, monVars, fn, taskVars, mu, serverProcesses, procs, slept>>

\* The readiness loop gets the read lock it waited for and makes its check.
PollLocked(c) ==
  /\ pc[c] = "rlock"
  /\ mu = 0
  /\ PollCheck(c)
  /\ UNCHANGED <<cfgVars, supVars, monVars, fn, taskVars, mu, serverProcesses, procs, slept>>

\* A readiness loop without the timer case in its select.
PollTimeoutNever(c) ==
  /\ pc[c] = "poll"
  /\ FALSE
  /\ UNCHANGED vars

\* The readiness loop of PrepareTransfer when time.After(5 * time.Second) fires.
PollTimeout(c) ==
  /\ pc[c] = "poll"
  /\ call[c].elapsed = PollTimeoutTicks
  /\ pc' = [pc EXCEPT ![c] = "idle"]
  /\ call' = [call EXCEPT ![c] = NoCall]
  /\ last' = Returned("prepare", "timeout")
  /\ UNCHANGED <<cfgVars, supVars, monVars, fn, taskVars, mu, serverProcesses, procs, slept>>

\* A caller has a statement to run now.
CanGoOn(c) ==
  \/ pc[c] = "poll" /\ (call[c].tickReady \/ call[c].elapsed = PollTimeoutTicks)
  \/ pc[c] = "rlock" /\ mu = 0
  \/ pc[c] = "settle" /\ slept = SettleTicks

\* 500 ms pass.
Tick ==
  /\ \A c \in Callers : ~CanGoOn(c)
  /\ \/ \E c \in Callers : pc[c] \in {"poll", "rlock", "settle"}
     \/ \E k \in DOMAIN activeConnections : activeConnections[k] < ConnTimeoutTicks
     \/ sinceStart.direction # "" /\ sinceStart.age < ConnTimeoutTicks
  /\ call' = AdvanceCall(call, 1)
  /\ slept' = IF \E c \in Callers : pc[c] = "settle" THEN slept + 1 ELSE slept
  /\ activeConnections' = AdvanceAges(activeConnections, 1)
  /\ sinceStart' = AdvanceSince(sinceStart, 1)
  /\ UNCHANGED <<cfgVars, supVars, monVars, fn, activeTasks, taskHistory, tasks, mu, serverProcesses, procs, pc, last>>

\* The external executable of supervisor i ends on its own or is killed from
\* outside: nobody waits for it, it stays in the process table.
ProcessExit(i) ==
  /\ procs[i] # NoProc
  /\ procs[i].os = "alive"
  /\ procs' = Collect([procs EXCEPT ![i].os = "zombie"], serverProcesses, call)
  /\ UNCHANGED <<cfgVars, supVars, monVars, fn, taskVars, mu, serverProcesses, pc, call, slept, last>>

\* ---------------------------------------------------------- transfer tasks

\* getConnectionKeyWithConfig: "default_" followed by the request's direction;
\* the key is represented by the direction.
getConnectionKeyWithConfig(direction) == direction

\* isConnectionActive: the key was used less than 10 seconds ago.
isConnectionActive(key) ==
  /\ key \in DOMAIN activeConnections
  /\ activeConnections[key] < ConnTimeoutTicks

\* buildTransferConfig for a request and the settings of the call, whose
\* strings are given by whether they are non-empty.
buildTransferConfig(req, settings) ==
  IF req.mode \notin Modes THEN [err |-> "unsupported-mode"]
  ELSE IF req.direction \notin Directions THEN [err |-> "unsupported-direction"]
  ELSE [err |-> "nil",
        Device |-> settings.devOK,
        Directory |-> IF req.mode = "filesystem" /\ req.direction = "put"
                      THEN TRUE            \* getFileDirectory never returns ""
                      ELSE settings.dirOK,
        LogFile |-> TRUE, Mode |-> req.mode, Direction |-> req.direction,
        ServerAddress |-> TRUE,            \* the configured address, or "localhost"
        Filename |-> req.filenameOK,       \* getFileName("") is ""
        NoHuge |-> req.mode = "hugepages",
        MMan |-> req.mode \in {"hugepages", "tmpfs"}]

\* startTransferTask: the error it returns, and the wrapper as it leaves it.
\* Both branches of its last statement return an error.
startTransferTask(cfg, mkdirOK) ==
  IF cfg.Direction = "get" /\ ~mkdirOK
  THEN [err |-> "mkdir-failed", Status |-> "failed", isMonitoring |-> FALSE,
        monitorStatus |-> "pending", worker |-> FALSE]
  ELSE [err |-> "exec-refused", Status |-> "failed", isMonitoring |-> TRUE,
        monitorStatus |-> "starting", worker |-> TRUE]

\* The readings of the clock, in nanoseconds since the epoch.
ClockReadings == 1..MaxClock

\* generateID: "task_" followed by time.Now().UnixNano(); now is the reading.
generateID(now) == <<"task", now>>

\* The IDs a caller can name.
TaskIDs == {generateID(t) : t \in ClockReadings}

\* The admission checks with the limit compared the wrong way (> for >=).
AdmissionOffByOne(req) ==
  IF Cardinality(DOMAIN activeTasks) > maxConcurrent THEN "limit"
  ELSE IF /\ singleTransfer /\ requireReconnect
          /\ isConnectionActive(getConnectionKeyWithConfig(req.direction))
  THEN "reconnect"
  ELSE "nil"

\* The admission checks of StartTransfer: "nil" when the call is admitted.
Admission(req) ==
  IF Cardinality(DOMAIN activeTasks) >= maxConcurrent THEN "limit"
  ELSE IF /\ singleTransfer /\ requireReconnect
          /\ isConnectionActive(getConnectionKeyWithConfig(req.direction))
  THEN "reconnect"
  ELSE "nil"

\* The inputs of a start call: the request, the settings, whether a missing
\* target directory can be created, and the reading of the clock when the task
\* is created.  Of the inputs that differ only in a value the call never reads,
\* one is kept.
StartInputs ==
  {i \in [mode : ReqModes, direction : ReqDirections, filenameOK : BOOLEAN,
          devOK : BOOLEAN, dirOK : BOOLEAN, mkdirOK : BOOLEAN, now : ClockReadings] :
     /\ i.mode \notin Modes \/ i.direction \notin Directions =>
          i.filenameOK /\ i.devOK /\ i.dirOK
     /\ ~i.devOK => i.dirOK
     /\ ~i.mkdirOK => i.direction = "get" /\ i.filenameOK /\ i.devOK /\ i.dirOK}

\* StartTransfer, under the lock from its first to its last statement.
StartTransfer(req) ==
  /\ mu = 0
  /\ LET adm == Admission(req)
         built == buildTransferConfig(req, req)
         valid == IF built.err # "nil" THEN built.err
                  ELSE IF ValidateConfig(built) # "nil" THEN "invalid-config"
                  ELSE "nil"
         started == startTransferTask(built, req.mkdirOK)
         res == IF adm # "nil" THEN adm
                ELSE IF valid # "nil" THEN valid
                ELSE started.err
         reached == adm = "nil" /\ valid = "nil"
         id == Len(tasks) + 1
         kept == reached /\ (started.worker \/ res = "nil")
         wrapper == [ID |-> generateID(req.now), Direction |-> req.direction, Status |-> started.Status,
                     isMonitoring |-> started.isMonitoring,
                     monitorStatus |-> started.monitorStatus,
                     worker |-> started.worker,
                     Process |-> [State |-> "stopped", hasProcess |-> FALSE]]
     IN
     /\ kept => Len(tasks) < MaxTasks
     \* the clock does not go back; a reading nobody keeps is not told apart
     /\ IF kept THEN \A i \in DOMAIN tasks : tasks[i].ID[2] <= req.now
                ELSE req.now = 1
     /\ tasks' = IF kept THEN Append(tasks, wrapper) ELSE tasks
     /\ IF res = "nil"
        THEN /\ activeTasks' = MapPut(activeTasks, wrapper.ID, id)
             /\ taskHistory' = Append(taskHistory, id)
             /\ activeConnections' =
                  IF singleTransfer
                  THEN MapPut(activeConnections, getConnectionKeyWithConfig(req.direction), 0)
                  ELSE activeConnections
        ELSE UNCHANGED <<activeTasks, taskHistory, activeConnections>>
     /\ sinceStart' = IF reached THEN [direction |-> req.direction, age |-> 0]
                      ELSE sinceStart
     /\ last' = [op |-> "start", result |-> res,
                 direction |-> req.direction,
                 atLimit |-> Cardinality(DOMAIN activeTasks) >= maxConcurrent,
                 valid |-> valid = "nil",
                 reached |-> reached,
                 prev |-> IF sinceStart.direction # req.direction THEN "none"
                          ELSE IF sinceStart.age < ConnTimeoutTicks THEN "within"
                          ELSE "after",
                 task |-> IF reached THEN id ELSE 0]
  /\ UNCHANGED <<cfgVars, supVars, monVars, fn, mu, serverProcesses, procs, pc, call, slept>>

\* CancelTransfer with the lookup made among all the wrappers instead of the
\* active set.
CancelTransferAnyTask(id) ==
  /\ mu = 0
  /\ IF \A i \in DOMAIN tasks : tasks[i].ID # id
     THEN /\ last' = Returned("cancel", "not-found")
          /\ UNCHANGED <<activeTasks, tasks>>
     ELSE LET ix == CHOOSE i \in DOMAIN tasks : tasks[i].ID = id
              w == tasks[ix]
              w1 == IF w.isMonitoring
                    THEN [w EXCEPT !.isMonitoring = FALSE, !.worker = FALSE,
                                   !.monitorStatus = IF @ = "in_progress" THEN "cancelled" ELSE @]
                    ELSE w
          IN IF ~w.Process.hasProcess \/ w.Process.State # "running"
             THEN /\ tasks' = [tasks EXCEPT ![ix] = w1]
                  /\ last' = Returned("cancel", "stop-failed")
                  /\ UNCHANGED activeTasks
             ELSE /\ tasks' = [tasks EXCEPT ![ix] =
                                 [w1 EXCEPT !.Status = "cancelled",
                                            !.Process = [State |-> "stopped", hasProcess |-> FALSE]]]
                  /\ activeTasks' = MapDelete(activeTasks, id)
                  /\ last' = Returned("cancel", "nil")
  /\ UNCHANGED <<cfgVars, supVars, monVars, fn, mu, taskHistory, activeConnections, serverProcesses, procs,
                 pc, call, slept, sinceStart>>

\* CancelTransfer, under the lock from its first to its last statement.
CancelTransfer(id) ==
  /\ mu = 0
  /\ IF id \notin DOMAIN activeTasks
     THEN /\ last' = Returned("cancel", "not-found")
          /\ UNCHANGED <<activeTasks, tasks>>
     ELSE LET w == tasks[activeTasks[id]]
              \* StopMonitoring
              w1 == IF w.isMonitoring
                    THEN [w EXCEPT !.isMonitoring = FALSE, !.worker = FALSE,
                                   !.monitorStatus = IF @ = "in_progress" THEN "cancelled" ELSE @]
                    ELSE w
          IN IF ~w.Process.hasProcess \/ w.Process.State # "running"
             THEN \* Process.Stop fails: the call returns its error
                  /\ tasks' = [tasks EXCEPT ![activeTasks[id]] = w1]
                  /\ last' = Returned("cancel", "stop-failed")
                  /\ UNCHANGED activeTasks
             ELSE /\ tasks' = [tasks EXCEPT ![activeTasks[id]] =
                                 [w1 EXCEPT !.Status = "cancelled",
                                            !.Process = [State |-> "stopped", hasProcess |-> FALSE]]]
                  /\ activeTasks' = MapDelete(activeTasks, id)
                  /\ last' = Returned("cancel", "nil")
  /\ UNCHANGED <<cfgVars, supVars, monVars, fn, mu, taskHistory, activeConnections, serverProcesses, procs,
                 pc, call, slept, sinceStart>>

\* TransferService.Cleanup marking every wrapper, active or not.
ServiceCleanupEveryTask ==
  /\ mu = 0
  /\ tasks' = [i \in DOMAIN tasks |->
                 [tasks[i] EXCEPT !.Status = "cancelled", !.isMonitoring = FALSE,
                                  !.worker = FALSE,
                                  !.monitorStatus = IF @ = "in_progress" /\ tasks[i].isMonitoring
                                                    THEN "cancelled" ELSE @]]
  /\ procs' = Collect([i \in ProcIds |->
                         IF i \in Range(serverProcesses) THEN Cleanup(procs[i]) ELSE procs[i]],
                      EmptyMap, call)
  /\ activeTasks' = EmptyMap
  /\ activeConnections' = EmptyMap
  /\ serverProcesses' = EmptyMap
  /\ last' = Returned("cleanup", "nil")
  /\ UNCHANGED <<cfgVars, supVars, monVars, fn, mu, taskHistory, pc, call, slept, sinceStart>>

\* TransferService.Cleanup without the removal of the registry entries.
ServiceCleanupKeepsRegistry ==
  /\ mu = 0
  /\ tasks' = [i \in DOMAIN tasks |->
                 IF i \in Range(activeTasks)
                 THEN [tasks[i] EXCEPT !.Status = "cancelled", !.isMonitoring = FALSE,
                                       !.worker = FALSE,
                                       !.monitorStatus = IF @ = "in_progress" /\ tasks[i].isMonitoring
                                                         THEN "cancelled" ELSE @]
                 ELSE tasks[i]]
  /\ procs' = Collect([i \in ProcIds |->
                         IF i \in Range(serverProcesses) THEN Cleanup(procs[i]) ELSE procs[i]],
                      serverProcesses, call)
  /\ activeTasks' = EmptyMap
  /\ activeConnections' = EmptyMap
  /\ UNCHANGED serverProcesses
  /\ last' = Returned("cleanup", "nil")
  /\ UNCHANGED <<cfgVars, supVars, monVars, fn, mu, taskHistory, pc, call, slept, sinceStart>>

\* TransferService.Cleanup, under the lock from its first to its last statement.
ServiceCleanup ==
  /\ mu = 0
  /\ tasks' = [i \in DOMAIN tasks |->
                 IF i \in Range(activeTasks)
                 THEN [tasks[i] EXCEPT !.Status = "cancelled", !.isMonitoring = FALSE,
                                       !.worker = FALSE,
                                       !.monitorStatus = IF @ = "in_progress" /\ tasks[i].isMonitoring
                                                         THEN "cancelled" ELSE @]
                 ELSE tasks[i]]
  /\ procs' = Collect([i \in ProcIds |->
                         IF i \in Range(serverProcesses) THEN Cleanup(procs[i]) ELSE procs[i]],
                      EmptyMap, call)
  /\ activeTasks' = EmptyMap
  /\ activeConnections' = EmptyMap
  /\ serverProcesses' = EmptyMap
  /\ last' = Returned("cleanup", "nil")
  /\ UNCHANGED <<cfgVars, supVars, monVars, fn, mu, taskHistory, pc, call, slept, sinceStart>>

\* --------------------------------------------- one supervisor, step by step

\* The two kinds of command: a listener (argument -l, no monitorProcess) and
\* a transfer.
Roles == {"listener", "transfer"}

\* How a process ends: exit status 0, another exit status, or a signal.
ExitStatuses == {"clean", "nonzero", "signal"}

NoChild == [os |-> "none", role |-> "listener", ignoresInt |-> FALSE,
            interrupted |-> FALSE, status |-> "none", forced |-> FALSE]
NoWorker == [pc |-> "none", err |-> "none"]
NoStop == [pc |-> "idle", elapsed |-> 0, werr |-> "none", onAlive |-> FALSE]

\* What a supervisor call returned; onAlive tells that the process was alive
\* and recorded as running when the call began.
SupReturned(op, res, onAlive) == [op |-> op, result |-> res, onAlive |-> onAlive]

NewProcessManager ==
  /\ pmInfo = [State |-> "stopped", hasProcess |-> FALSE, ExitTime |-> "nil",
               ExitCode |-> "nil", Error |-> ""]
  /\ child = NoChild
  /\ worker = NoWorker
  /\ stopCall = NoStop
  /\ supLast = SupReturned("new", "nil", FALSE)
  /\ supCalled = {}

\* pm.mu is free: no Stop call is between its Lock and its return.
PMUnlocked == stopCall.pc = "idle"

\* The supervisor as IsRunning reads it.
PMView == [State |-> pmInfo.State, hasProcess |-> pmInfo.hasProcess,
           ExitTime |-> pmInfo.ExitTime # "nil", os |-> child.os]

\* The error exec.Cmd.Wait returns for an exit status: nil, an ExitError
\* ("exit-status", "signal"), or for a process already waited for an error
\* that is no ExitError.
WaitErr(status) ==
  CASE status = "clean" -> "nil"
    [] status = "nonzero" -> "exit-status"
    [] OTHER -> "signal"

\* The record of an exit from the result of Wait, as Stop and monitorProcess
\* both write it; who tells which of them took the time stamp.
RecordExit(info, err, who) ==
  [info EXCEPT !.ExitTime = who,
               !.ExitCode = IF err = "exit-status" THEN "nonzero"
                            ELSE IF err = "signal" THEN "-1" ELSE @,
               !.State = IF err = "nil" THEN "stopped" ELSE "error",
               !.Error = IF err = "nil" THEN @ ELSE err,
               !.hasProcess = FALSE]

\* Start(cmd): one command per supervisor, as the orchestrator uses it.
PMStart(role, ignores, ok) ==
  /\ PMUnlocked
  /\ IF pmInfo.hasProcess /\ pmInfo.State = "running"
     THEN /\ supLast' = SupReturned("start", "already-running", FALSE)
          /\ UNCHANGED <<pmInfo, child, worker>>
     ELSE /\ child.os = "none"
          /\ IF ~ok
             THEN /\ pmInfo' = [State |-> "error", hasProcess |-> pmInfo.hasProcess,
                                ExitTime |-> "nil", ExitCode |-> "nil",
                                Error |-> "start-failed"]
                  /\ supLast' = SupReturned("start", "start-failed", FALSE)
                  /\ UNCHANGED <<child, worker>>
             ELSE /\ pmInfo' = [State |-> "running", hasProcess |-> TRUE,
                                ExitTime |-> "nil", ExitCode |-> "nil", Error |-> ""]
                  /\ child' = [NoChild EXCEPT !.os = "alive", !.role = role,
                                              !.ignoresInt = ignores]
                  /\ worker' = IF role = "transfer"
                               THEN [NoWorker EXCEPT !.pc = "spawned"] ELSE worker
                  /\ supLast' = SupReturned("start", "nil", FALSE)
  /\ UNCHANGED <<cfgVars, svcVars, monVars, fn, stopCall, supCalled>>

\* The process ends: by itself, after the interrupt, or killed from outside.
ChildExit(status) ==
  /\ child.os = "alive"
  /\ child' = [child EXCEPT !.os = "zombie", !.status = status]
  /\ UNCHANGED <<cfgVars, svcVars, monVars, fn, pmInfo, worker, stopCall, supLast, supCalled>>

\* exec.Cmd.Wait returns to one of its callers: the first to wait for an
\* ended process gets its status, any later one an error.
WaitReturns(w) ==
  /\ child.os \in {"zombie", "reaped"}
  /\ LET err == IF child.os = "zombie" THEN WaitErr(child.status) ELSE "wait-failed"
     IN IF w = "worker"
        THEN /\ worker.pc = "waiting"
             /\ worker' = [pc |-> "returned", err |-> err]
             /\ UNCHANGED stopCall
        ELSE /\ stopCall.pc \in {"waiting", "killed"}
             /\ stopCall.werr = "none"
             /\ stopCall' = [stopCall EXCEPT !.werr = err]
             /\ UNCHANGED worker
  /\ child' = [child EXCEPT !.os = "reaped"]
  /\ UNCHANGED <<cfgVars, svcVars, monVars, fn, pmInfo, supLast, supCalled>>

\* Stop, from Lock to the select: the early returns, or the interrupt and
\* the goroutine that waits.
PMStopBegin ==
  /\ PMUnlocked
  /\ IF ~pmInfo.hasProcess \/ pmInfo.State # "running"
     THEN /\ supLast' = SupReturned("stop", "not-running", FALSE)
          /\ UNCHANGED <<pmInfo, child, stopCall, supCalled>>
     ELSE /\ supCalled' = supCalled \cup {"stop"}
          /\ IF child.os = "reaped"
             THEN \* Signal fails, then Kill fails
                  /\ pmInfo' = [pmInfo EXCEPT !.State = "error",
                                              !.Error = "already-finished"]
                  /\ supLast' = SupReturned("stop", "kill-failed", FALSE)
                  /\ UNCHANGED <<child, stopCall>>
             ELSE /\ pmInfo' = [pmInfo EXCEPT !.State = "stopping"]
                  /\ child' = [child EXCEPT !.interrupted = @ \/ child.os = "alive"]
                  /\ stopCall' = [pc |-> "waiting", elapsed |-> 0, werr |-> "none",
                                  onAlive |-> child.os = "alive"]
                  /\ UNCHANGED supLast
  /\ UNCHANGED <<cfgVars, svcVars, monVars, fn, worker>>

\* Stop, the case of the select that receives from done.
PMStopDone ==
  /\ stopCall.pc = "waiting"
  /\ stopCall.werr # "none"
  /\ pmInfo' = RecordExit(pmInfo, stopCall.werr, "stop")
  /\ stopCall' = NoStop
  /\ supLast' = SupReturned("stop", "nil", stopCall.onAlive)
  /\ UNCHANGED <<cfgVars, svcVars, monVars, fn, child, worker, supCalled>>

\* The timer case taken before the grace is over.
PMStopTimeoutEarly ==
  /\ stopCall.pc = "waiting"
  /\ stopCall.elapsed >= 1
  /\ IF child.os = "reaped"
     THEN /\ pmInfo' = [pmInfo EXCEPT !.State = "error", !.Error = "already-finished"]
          /\ stopCall' = NoStop
          /\ supLast' = SupReturned("stop", "timeout-kill-failed", stopCall.onAlive)
          /\ UNCHANGED child
     ELSE /\ child' = IF child.os = "alive"
                      THEN [child EXCEPT !.os = "zombie", !.status = "signal",
                                         !.forced = TRUE]
                      ELSE child
          /\ stopCall' = [stopCall EXCEPT !.pc = "killed"]
          /\ UNCHANGED <<pmInfo, supLast>>
  /\ UNCHANGED <<cfgVars, svcVars, monVars, fn, worker, supCalled>>

\* Stop, the case of the select that receives from the timer: Kill, which
\* fails on a process already waited for.
PMStopTimeout ==
  /\ stopCall.pc = "waiting"
  /\ stopCall.elapsed = StopGraceTicks
  /\ IF child.os = "reaped"
     THEN /\ pmInfo' = [pmInfo EXCEPT !.State = "error", !.Error = "already-finished"]
          /\ stopCall' = NoStop
          /\ supLast' = SupReturned("stop", "timeout-kill-failed", stopCall.onAlive)
          /\ UNCHANGED child
     ELSE /\ child' = IF child.os = "alive"
                      THEN [child EXCEPT !.os = "zombie", !.status = "signal",
                                         !.forced = TRUE]
                      ELSE child
          /\ stopCall' = [stopCall EXCEPT !.pc = "killed"]
          /\ UNCHANGED <<pmInfo, supLast>>
  /\ UNCHANGED <<cfgVars, svcVars, monVars, fn, worker, supCalled>>

\* Stop after its Kill, made to wait under pm.mu for monitorProcess as well.
PMStopKilledAwaitsWorker ==
  /\ stopCall.pc = "killed"
  /\ stopCall.werr # "none"
  /\ worker.pc \in {"none", "done"}
  /\ pmInfo' = [pmInfo EXCEPT !.ExitTime = "stop", !.State = "stopped",
                              !.hasProcess = FALSE]
  /\ stopCall' = NoStop
  /\ supLast' = SupReturned("stop", "nil", stopCall.onAlive)
  /\ UNCHANGED <<cfgVars, svcVars, monVars, fn, child, worker, supCalled>>

\* Stop after its Kill: the receive from done, then the record.
PMStopKilled ==
  /\ stopCall.pc = "killed"
  /\ stopCall.werr # "none"
  /\ pmInfo' = [pmInfo EXCEPT !.ExitTime = "stop", !.State = "stopped",
                              !.hasProcess = FALSE]
  /\ stopCall' = NoStop
  /\ supLast' = SupReturned("stop", "nil", stopCall.onAlive)
  /\ UNCHANGED <<cfgVars, svcVars, monVars, fn, child, worker, supCalled>>

\* Cleanup of the supervisor: cancel, then for a running process the
\* interrupt and a select that finds the context done.
PMCleanup ==
  /\ PMUnlocked
  /\ LET onRunning == pmInfo.hasProcess /\ pmInfo.State = "running"
     IN /\ child' = [child EXCEPT !.interrupted = @ \/ (onRunning /\ child.os = "alive")]
        /\ supLast' = SupReturned("cleanup", "nil", onRunning /\ child.os = "alive")
        /\ supCalled' = IF child.os # "none" THEN supCalled \cup {"cleanup"}
                        ELSE supCalled
  /\ pmInfo' = Cleanup(pmInfo)
  /\ UNCHANGED <<cfgVars, svcVars, monVars, fn, worker, stopCall>>

\* monitorProcess, the test of pm.process (read without the lock).
monitorProcessCheck ==
  /\ worker.pc = "spawned"
  /\ worker' = [worker EXCEPT !.pc = IF pmInfo.hasProcess THEN "checked" ELSE "done"]
  /\ UNCHANGED <<cfgVars, svcVars, monVars, fn, pmInfo, child, stopCall, supLast, supCalled>>

\* monitorProcess, the call pm.process.Wait(): a second read without the
\* lock, which panics if the field was set to nil in between.
monitorProcessWait ==
  /\ worker.pc = "checked"
  /\ worker' = [worker EXCEPT !.pc = IF pmInfo.hasProcess THEN "waiting" ELSE "panicked"]
  /\ UNCHANGED <<cfgVars, svcVars, monVars, fn, pmInfo, child, stopCall, supLast, supCalled>>

\* monitorProcess with the test of the state taken the wrong way round.
monitorProcessRecordInverted ==
  /\ worker.pc = "returned"
  /\ PMUnlocked
  /\ pmInfo' = IF pmInfo.State # "stopping" THEN pmInfo
               ELSE RecordExit(pmInfo, worker.err, "worker")
  /\ worker' = [worker EXCEPT !.pc = "done"]
  /\ UNCHANGED <<cfgVars, svcVars, monVars, fn, child, stopCall, supLast, supCalled>>

\* monitorProcess after Wait: under the lock, return if the state is
\* stopping, else record the exit.
monitorProcessRecord ==
  /\ worker.pc = "returned"
  /\ PMUnlocked
  /\ pmInfo' = IF pmInfo.State = "stopping" THEN pmInfo
               ELSE RecordExit(pmInfo, worker.err, "worker")
  /\ worker' = [worker EXCEPT !.pc = "done"]
  /\ UNCHANGED <<cfgVars, svcVars, monVars, fn, child, stopCall, supLast, supCalled>>

\* Half a second passes inside Stop's select.  Time does not pass while a
\* step that takes none is due: the receive from done, the return of Wait
\* for an ended process, the exit of a process that honours the interrupt.
SupTick ==
  /\ stopCall.pc = "waiting"
  /\ stopCall.elapsed < StopGraceTicks
  /\ stopCall.werr = "none"
  /\ child.os = "alive"
  /\ child.interrupted => child.ignoresInt
  /\ stopCall' = [stopCall EXCEPT !.elapsed = @ + 1]
  /\ UNCHANGED <<cfgVars, svcVars, monVars, fn, pmInfo, child, worker, supLast, supCalled>>

\* ---------------------------------------------------------------- log parser

\* A log line is a sequence of tokens: blanks, words, and whole progress
\* phrases, in several letter cases.
P50 == "Transferred 1 MB of 2 MB (50%)"
P100 == "TRANSFERRED 2 kb OF 2 kb (100%)"
P0 == "transferred 0 B of 1 GB (0%)"
PBadPercent == "Transferred 1 MB of 2 MB (1.2.3%)"
PHuge == "Transferred 99999999999999999999 B of 2 MB (50%)"
PWrap == "Transferred 9007199254740992 KB of 1 GB (50%)"

Vocabulary == {" ", "disk", "ERROR", "Failed", "failure", "Exception",
               "Completed", "finished", "SUCCESS",
               P50, P100, P0, PBadPercent, PHuge, PWrap}

Lines == UNION {[1..n -> Vocabulary] : n \in 0..MaxLineLen}

\* The token in lower case, as (?i) compares it.
Lower(tok) ==
  CASE tok = "ERROR" -> "error"
    [] tok = "Failed" -> "failed"
    [] tok = "Exception" -> "exception"
    [] tok = "Completed" -> "completed"
    [] tok = "SUCCESS" -> "success"
    [] tok = P50 -> "transferred 1 mb of 2 mb (50%)"
    [] tok = P100 -> "transferred 2 kb of 2 kb (100%)"
    [] tok = P0 -> "transferred 0 b of 1 gb (0%)"
    [] tok = PBadPercent -> "transferred 1 mb of 2 mb (1.2.3%)"
    [] tok = PHuge -> "transferred 99999999999999999999 b of 2 mb (50%)"
    [] tok = PWrap -> "transferred 9007199254740992 kb of 1 gb (50%)"
    [] OTHER -> tok

\* errorRegex, completeRegex and progressRegex of NewLogParser.
errorRegex(line) ==
  \E i \in DOMAIN line : Lower(line[i]) \in {"error", "failed", "failure", "exception"}
completeRegex(line) ==
  \E i \in DOMAIN line : Lower(line[i]) \in {"completed", "finished", "success"}

\* The submatches of progressRegex on a token: count, unit, total, unit,
\* percent, as the strings the pattern captures (([\d.]+) for the percent).
Submatches(tok) ==
  CASE Lower(tok) = "transferred 1 mb of 2 mb (50%)" ->
         <<"1", "MB", "2", "MB", "50">>
    [] Lower(tok) = "transferred 2 kb of 2 kb (100%)" ->
         <<"2", "kb", "2", "kb", "100">>
    [] Lower(tok) = "transferred 0 b of 1 gb (0%)" ->
         <<"0", "B", "1", "GB", "0">>
    [] Lower(tok) = "transferred 1 mb of 2 mb (1.2.3%)" ->
         <<"1", "MB", "2", "MB", "1.2.3">>
    [] Lower(tok) = "transferred 99999999999999999999 b of 2 mb (50%)" ->
         <<"99999999999999999999", "B", "2", "MB", "50">>
    [] Lower(tok) = "transferred 9007199254740992 kb of 1 gb (50%)" ->
         <<"9007199254740992", "KB", "1", "GB", "50">>
    [] OTHER -> <<>>

\* FindStringSubmatch: the leftmost match in the line, or nil (<<>>).
progressRegex(line) ==
  IF \E i \in DOMAIN line : Submatches(line[i]) # <<>>
  THEN Submatches(line[CHOOSE i \in DOMAIN line :
                         /\ Submatches(line[i]) # <<>>
                         /\ \A j \in 1..(i - 1) : Submatches(line[j]) = <<>>])
  ELSE <<>>

\* An int64 is kept as its four 16-bit limbs, the lowest first, in two's
\* complement: TLC's own integers have 32 bits.
LimbBits == 16
Limb == 2^LimbBits
Int64(n) == <<n % Limb, n \div Limb, 0, 0>>
Zero64 == Int64(0)
Positive(v) == v # Zero64 /\ v[4] < Limb \div 2

\* value * 1024 in the arithmetic of the limbs of value: the carry out of
\* the highest limb is lost, as in Go's multiplication of an int64.
RECURSIVE MulCarry(_, _)
MulCarry(value, carry) ==
  IF value = <<>> THEN <<>>
  ELSE LET t == Head(value) * 1024 + carry
       IN <<t % Limb>> \o MulCarry(Tail(value), t \div Limb)
Mul1024(value) == MulCarry(value, 0)

\* strconv.ParseInt(s, 10, 64) and strconv.ParseFloat(s, 64) on the digit
\* strings above: <<>> and -1 stand for the error they return.
\* 9007199254740992 is 2^53.
ParseInt(str) ==
  CASE str = "0" -> Int64(0) [] str = "1" -> Int64(1) [] str = "2" -> Int64(2)
    [] str = "9007199254740992" -> <<0, 0, 0, 32>>
    [] OTHER -> <<>>
ParseFloat(str) ==
  CASE str = "0" -> 0 [] str = "50" -> 50 [] str = "100" -> 100 [] OTHER -> -1

\* convertToBytes
convertToBytes(value, unit) ==
  CASE unit \in {"GB", "gb"} -> Mul1024(Mul1024(Mul1024(value)))
    [] unit \in {"MB", "mb"} -> Mul1024(Mul1024(value))
    [] unit \in {"KB", "kb"} -> Mul1024(value)
    [] OTHER -> value

\* strings.TrimSpace on a sequence of tokens
RECURSIVE TrimLeft(_)
TrimLeft(line) ==
  IF line # <<>> /\ Head(line) = " " THEN TrimLeft(Tail(line)) ELSE line
RECURSIVE TrimRight(_)
TrimRight(line) ==
  IF line # <<>> /\ line[Len(line)] = " "
  THEN TrimRight(SubSeq(line, 1, Len(line) - 1)) ELSE line
TrimSpace(line) == TrimRight(TrimLeft(line))

\* The ProgressInfo ParseLine starts from; isNil marks the nil it returns for
\* a line that matches nothing.
NoInfo == [isNil |-> TRUE, Status |-> "", Error |-> <<>>, BytesTransferred |-> Zero64,
           TotalBytes |-> Zero64, ProgressPercent |-> 0]
Parsed(info, err) == [info |-> info, err |-> err]

\* ParseLine with the completion test made before the error test.
ParseLineCompletionFirst(line) ==
  IF completeRegex(line)
  THEN Parsed([NoInfo EXCEPT !.isNil = FALSE, !.Status = "completed",
                             !.ProgressPercent = 100], "nil")
  ELSE IF errorRegex(line)
  THEN Parsed([NoInfo EXCEPT !.isNil = FALSE, !.Status = "failed",
                             !.Error = TrimSpace(line)], "nil")
  ELSE LET m == progressRegex(line) IN
       IF m = <<>> THEN Parsed(NoInfo, "nil")
       ELSE IF ParseInt(m[1]) = <<>> THEN Parsed(NoInfo, "parse-transferred")
       ELSE IF ParseInt(m[3]) = <<>> THEN Parsed(NoInfo, "parse-total")
       ELSE IF ParseFloat(m[5]) < 0 THEN Parsed(NoInfo, "parse-percent")
       ELSE Parsed([NoInfo EXCEPT !.isNil = FALSE, !.Status = "in_progress",
                      !.BytesTransferred = convertToBytes(ParseInt(m[1]), m[2]),
                      !.TotalBytes = convertToBytes(ParseInt(m[3]), m[4]),
                      !.ProgressPercent = ParseFloat(m[5])], "nil")

\* LogParser.ParseLine: the info (or nil) and the error it returns.
ParseLine(line) ==
  IF errorRegex(line)
  THEN Parsed([NoInfo EXCEPT !.isNil = FALSE, !.Status = "failed",
                             !.Error = TrimSpace(line)], "nil")
  ELSE IF completeRegex(line)
  THEN Parsed([NoInfo EXCEPT !.isNil = FALSE, !.Status = "completed",
                             !.ProgressPercent = 100], "nil")
  ELSE LET m == progressRegex(line) IN
       IF m = <<>> THEN Parsed(NoInfo, "nil")
       ELSE IF ParseInt(m[1]) = <<>> THEN Parsed(NoInfo, "parse-transferred")
       ELSE IF ParseInt(m[3]) = <<>> THEN Parsed(NoInfo, "parse-total")
       ELSE IF ParseFloat(m[5]) < 0 THEN Parsed(NoInfo, "parse-percent")
       ELSE Parsed([NoInfo EXCEPT !.isNil = FALSE, !.Status = "in_progress",
                      !.BytesTransferred = convertToBytes(ParseInt(m[1]), m[2]),
                      !.TotalBytes = convertToBytes(ParseInt(m[3]), m[4]),
                      !.ProgressPercent = ParseFloat(m[5])], "nil")

\* ------------------------------------------------------------ function calls

\* No function has been called yet; each behaviour makes one call.
NoFn == [op |-> "none"]

\* A call of ParseLine on a line.
CallParseLine(line) ==
  /\ fn = NoFn
  /\ fn' = [op |-> "ParseLine", arg |-> line, ret |-> ParseLine(line)]
  /\ UNCHANGED <<cfgVars, svcVars, supVars, monVars>>

\* The listener configuration of ensureServerProcessStarted for a mode: the
\* flags are the same with and without ts.serverConfig.
ListenerConfig(mode) ==
  [Mode |-> mode, Direction |-> "",
   NoHuge |-> mode = "tmpfs", MMan |-> mode = "tmpfs"]

\* addModeSpecificArgs: the flags it appends to the command line.
addModeSpecificArgs(cfg) ==
  CASE cfg.Mode = "hugepages" -> {"--nohuge", "--mman"}
    [] cfg.Mode = "tmpfs" -> {"--nohuge", "--mman"}
    [] cfg.Mode = "filesystem" ->
         IF cfg.Direction = "" THEN {"--nohuge"}
         ELSE (IF cfg.NoHuge THEN {"--nohuge"} ELSE {})
              \cup (IF cfg.MMan THEN {"--mman"} ELSE {})
    [] OTHER -> {}

\* The flags of the configuration built for a mode and a role (listener, put
\* or get), and those of the command line built from it.
CallBuildFlags(mode, role) ==
  /\ fn = NoFn
  /\ LET cfg == IF role = "listener" THEN ListenerConfig(mode)
                ELSE buildTransferConfig(
                       [mode |-> mode, direction |-> role, filenameOK |-> TRUE],
                       [devOK |-> TRUE, dirOK |-> TRUE])
     IN fn' = [op |-> "flags", arg |-> <<mode, role>>,
               ret |-> [NoHuge |-> cfg.NoHuge, MMan |-> cfg.MMan,
                        args |-> addModeSpecificArgs(cfg)]]
  /\ UNCHANGED <<cfgVars, svcVars, supVars, monVars>>

\* The flags of addModeSpecificArgs as arguments of the command line.
ModeArgs(cfg) ==
  (IF "--nohuge" \in addModeSpecificArgs(cfg) THEN <<"--nohuge">> ELSE <<>>)
    \o (IF "--mman" \in addModeSpecificArgs(cfg) THEN <<"--mman">> ELSE <<>>)

\* buildServerArgs and buildClientArgs: the arguments after the path of the
\* executable.  filepath.Base of the file name is the name itself here.
buildServerArgs(config) ==
  <<"-d", config.Device, "--dir", config.Directory, "-l", "0",
    "--logfile", config.LogFile>> \o ModeArgs(config)
buildClientArgs(config) ==
  <<"-d", config.Device, "-c", config.ServerAddress, "--dir", config.Directory,
    "--logfile", config.LogFile, "-m", "4096">>
    \o ModeArgs(config)
    \o <<IF config.Direction = "put" THEN "--put" ELSE "--get", config.Filename>>

\* isServerProcess: some argument of the command, its path included, is "-l".
isServerProcess(args) == \E i \in DOMAIN args : args[i] = "-l"

\* The strings of a configuration: each is an ordinary value or "-l".
ArgStrings ==
  [Device : {"mlx5_0", "-l"}, Directory : {"/dev/shm", "-l"},
   ServerAddress : {"10.0.0.1", "-l"}, LogFile : {"/tmp/t.log", "-l"},
   Filename : {"f.bin", "-l"}]

\* The command of StartServer (role listener) or StartClient (put, get) for a
\* configuration, classified by ProcessManager.Start.
CallIsServerProcess(mode, role, strs) ==
  /\ fn = NoFn
  /\ LET flags == IF role = "listener" THEN ListenerConfig(mode)
                  ELSE buildTransferConfig(
                         [mode |-> mode, direction |-> role, filenameOK |-> TRUE],
                         [devOK |-> TRUE, dirOK |-> TRUE])
         config == [Mode |-> mode, Direction |-> flags.Direction,
                    NoHuge |-> flags.NoHuge, MMan |-> flags.MMan,
                    Device |-> strs.Device, Directory |-> strs.Directory,
                    ServerAddress |-> strs.ServerAddress, LogFile |-> strs.LogFile,
                    Filename |-> strs.Filename]
         cmd == <<"rtranfile">> \o (IF role = "listener" THEN buildServerArgs(config)
                                    ELSE buildClientArgs(config))
     IN fn' = [op |-> "isServerProcess", arg |-> <<mode, role, strs>>,
               ret |-> isServerProcess(cmd)]
  /\ UNCHANGED <<cfgVars, svcVars, supVars, monVars>>

\* A call of ValidateConfig.
ConfigInputs ==
  [Device : BOOLEAN, Directory : BOOLEAN, LogFile : BOOLEAN,
   Mode : Modes \cup {"", "nfs"}, Direction : Directions \cup {"", "sideways"},
   ServerAddress : BOOLEAN, Filename : BOOLEAN]

CallValidateConfig(cfg) ==
  /\ fn = NoFn
  /\ fn' = [op |-> "ValidateConfig", arg |-> cfg, ret |-> ValidateConfig(cfg)]
  /\ UNCHANGED <<cfgVars, svcVars, supVars, monVars>>

\* File paths: sequences of characters.
PathChars == {"/", "d", "f"}
Paths == UNION {[1..n -> PathChars] : n \in 1..MaxPathLen}

\* The index of the last slash of a path, 0 if it has none.
LastSlash(path) ==
  IF \E i \in DOMAIN path : path[i] = "/"
  THEN CHOOSE i \in DOMAIN path :
         path[i] = "/" /\ \A j \in (i + 1)..Len(path) : path[j] # "/"
  ELSE 0

\* getFileDirectory
getFileDirectory(filename) ==
  IF Len(filename) > 0 /\ filename[1] = "/" /\ LastSlash(filename) > 1
  THEN SubSeq(filename, 1, LastSlash(filename) - 1)
  ELSE <<".">>

\* The configured base directory of the filesystem mode.
FilesystemBaseDir == <<"/", "b", "a", "s", "e">>

\* The working directory buildTransferConfig sets for the filesystem mode.
CallBuildDirectory(path, direction) ==
  /\ fn = NoFn
  /\ fn' = [op |-> "directory", arg |-> [path |-> path, direction |-> direction],
            ret |-> IF direction = "put" THEN getFileDirectory(path)
                    ELSE FilesystemBaseDir]
  /\ UNCHANGED <<cfgVars, svcVars, supVars, monVars>>

\* Go's int, kept to IntBits bits: the value an arithmetic result wraps to.
MaxInt == 2 ^ (IntBits - 1) - 1
Wrap(x) == ((x + 2 ^ (IntBits - 1)) % (2 ^ IntBits)) - 2 ^ (IntBits - 1)

\* ListTransfers on the history: the page it returns, or the panic of a
\* slice expression whose bounds are out of range.
ListTransfers(history, page, size) ==
  LET total == Len(history)
      start == Wrap((page - 1) * size)
      end0 == Wrap(start + size)
      end == IF end0 > total THEN total ELSE end0
  IN IF start >= total
     THEN [panic |-> FALSE, Tasks |-> <<>>, Total |-> total, Page |-> page, Size |-> size]
     ELSE IF end - start < 0 \/ start < 0 \/ end < start
     THEN [panic |-> TRUE, Tasks |-> <<>>, Total |-> total, Page |-> page, Size |-> size]
     ELSE [panic |-> FALSE, Tasks |-> SubSeq(history, start + 1, end),
           Total |-> total, Page |-> page, Size |-> size]

\* A call of ListTransfers with the page and the size the handler passes on.
CallListTransfers(page, size) ==
  /\ fn = NoFn
  /\ fn' = [op |-> "ListTransfers", arg |-> [page |-> page, size |-> size],
            ret |-> ListTransfers(taskHistory, page, size)]
  /\ UNCHANGED <<cfgVars, svcVars, supVars, monVars>>

\* ------------------------------------------------- one monitor, step by step

\* The lines the transfer executable writes to the log file.
FileLines == {<<"ERROR", " ", "disk">>, <<"Completed">>, <<P50>>, <<"disk">>}

NoMonitorWorker == [pc |-> "none", offset |-> 0, eof |-> FALSE]

\* NewTransferMonitor(logFile), with a log file that does not exist yet.
NewTransferMonitor ==
  /\ monitor = [Status |-> "pending", Error |-> <<>>, BytesTransferred |-> Zero64,
                TotalBytes |-> Zero64, ProgressPercent |-> 0,
                isMonitoring |-> FALSE, stopClosed |-> FALSE, panicked |-> FALSE]
  /\ logFile = [exists |-> FALSE, lines |-> <<>>]
  /\ mworker = NoMonitorWorker

\* StartMonitoring, called when no worker of an earlier start is still
\* running; the call that finds isMonitoring set returns an error and changes
\* nothing.
StartMonitoring ==
  /\ ~monitor.panicked
  /\ ~monitor.isMonitoring
  /\ mworker.pc \in {"none", "done"}
  /\ monitor' = [monitor EXCEPT !.isMonitoring = TRUE, !.Status = "starting"]
  /\ mworker' = [NoMonitorWorker EXCEPT !.pc = "select"]
  /\ UNCHANGED <<cfgVars, svcVars, supVars, fn, logFile>>

\* StopMonitoring: close(tm.stopChan) panics when the channel is closed
\* already, before the statements after it.
StopMonitoring ==
  /\ ~monitor.panicked
  /\ monitor' = IF ~monitor.isMonitoring THEN monitor
                ELSE IF monitor.stopClosed THEN [monitor EXCEPT !.panicked = TRUE]
                ELSE [monitor EXCEPT !.stopClosed = TRUE, !.isMonitoring = FALSE,
                                     !.Status = IF @ = "in_progress" THEN "cancelled" ELSE @]
  /\ UNCHANGED <<cfgVars, svcVars, supVars, fn, logFile, mworker>>

\* The transfer executable creates its log file.
CreateLogFile ==
  /\ ~logFile.exists
  /\ logFile' = [logFile EXCEPT !.exists = TRUE]
  /\ UNCHANGED <<cfgVars, svcVars, supVars, fn, monitor, mworker>>

\* The transfer executable appends a complete line.
AppendLine(line) ==
  /\ logFile.exists
  /\ Len(logFile.lines) < MaxLines
  /\ logFile' = [logFile EXCEPT !.lines = Append(@, line)]
  /\ UNCHANGED <<cfgVars, svcVars, supVars, fn, monitor, mworker>>

\* monitorLogFile, the select of the first loop: return on a closed stopChan,
\* else Stat of the log file.
monitorSelect ==
  /\ mworker.pc = "select"
  /\ mworker' = [mworker EXCEPT !.pc = IF monitor.stopClosed THEN "done"
                                       ELSE IF logFile.exists THEN "open"
                                       ELSE "sleep"]
  /\ UNCHANGED <<cfgVars, svcVars, supVars, fn, monitor, logFile>>

\* monitorLogFile, the Sleep of 100 ms and the break that leaves the loop.
monitorSleep ==
  /\ mworker.pc = "sleep"
  /\ mworker' = [mworker EXCEPT !.pc = "open"]
  /\ UNCHANGED <<cfgVars, svcVars, supVars, fn, monitor, logFile>>

\* monitorLogFile, Open and Seek to the end of the file.
monitorOpen ==
  /\ mworker.pc = "open"
  /\ IF logFile.exists
     THEN /\ mworker' = [mworker EXCEPT !.pc = "opened", !.offset = Len(logFile.lines)]
          /\ UNCHANGED monitor
     ELSE /\ monitor' = [monitor EXCEPT !.Status = "failed", !.Error = <<"open-failed">>]
          /\ mworker' = [mworker EXCEPT !.pc = "done"]
  /\ UNCHANGED <<cfgVars, svcVars, supVars, fn, logFile>>

\* monitorLogFile, the status written after the file is open.
monitorInProgress ==
  /\ mworker.pc = "opened"
  /\ monitor' = [monitor EXCEPT !.Status = "in_progress"]
  /\ mworker' = [mworker EXCEPT !.pc = "loop"]
  /\ UNCHANGED <<cfgVars, svcVars, supVars, fn, logFile>>

\* monitorLogFile, the select of the second loop taking the closed stopChan.
monitorLoopStop ==
  /\ mworker.pc = "loop"
  /\ monitor.stopClosed
  /\ mworker' = [mworker EXCEPT !.pc = "done"]
  /\ UNCHANGED <<cfgVars, svcVars, supVars, fn, monitor, logFile>>

\* monitorLogFile, the select of the second loop taking the ticker: when the
\* stopChan is closed as well, the select takes either.
monitorLoopTick ==
  /\ mworker.pc = "loop"
  /\ mworker' = [mworker EXCEPT !.pc = "scan"]
  /\ UNCHANGED <<cfgVars, svcVars, supVars, fn, monitor, logFile>>

\* What the loop writes into tm.progress for the info of a line.
Updated(mon, info) ==
  [mon EXCEPT !.Status = IF info.Status # "" THEN info.Status ELSE @,
              !.BytesTransferred = IF Positive(info.BytesTransferred)
                                   THEN info.BytesTransferred ELSE @,
              !.TotalBytes = IF Positive(info.TotalBytes) THEN info.TotalBytes ELSE @,
              !.ProgressPercent = IF info.ProgressPercent > 0
                                  THEN info.ProgressPercent ELSE @,
              !.Error = IF info.Error # <<>> THEN info.Error ELSE @]

\* monitorLogFile, one turn of for scanner.Scan(): the next line is parsed
\* and written, or Scan returns false.  A bufio.Scanner that has met the end
\* of its input returns false from then on.
monitorScan ==
  /\ mworker.pc = "scan"
  /\ IF ~mworker.eof /\ mworker.offset < Len(logFile.lines)
     THEN LET r == ParseLine(logFile.lines[mworker.offset + 1])
          IN /\ monitor' = IF r.err = "nil" /\ ~r.info.isNil
                           THEN Updated(monitor, r.info) ELSE monitor
             /\ mworker' = [mworker EXCEPT !.offset = @ + 1]
     ELSE /\ mworker' = [mworker EXCEPT !.pc = "loop", !.eof = TRUE]
          /\ UNCHANGED monitor
  /\ UNCHANGED <<cfgVars, svcVars, supVars, fn, logFile>>

\* ----------------------------------------------------------- specification

\* NewTransferService(path, maxConcurrent, interval)
NewTransferService(mc) ==
  /\ maxConcurrent = mc
  /\ singleTransfer = TRUE
  /\ requireReconnect = TRUE
  /\ serverConfig = [isNil |-> TRUE, BaseDir |-> [m \in Modes |-> FALSE]]

\* NewTransferServiceWithConfig(path, config, single): single is nil or holds
\* the flags of the single-transfer settings; dirs tells which base
\* directories of config are non-empty.
NewTransferServiceWithConfig(mc, dirs, single) ==
  /\ maxConcurrent = mc
  /\ singleTransfer = (IF single.isNil THEN FALSE ELSE single.Enabled)
  /\ requireReconnect = (IF single.isNil THEN FALSE ELSE single.RequireReconnect)
  /\ serverConfig = [isNil |-> FALSE, BaseDir |-> dirs]

\* The configurations tried: at most one base directory is empty.
DirChoices == {[m \in Modes |-> m # e] : e \in Modes \cup {"none"}}
SingleNil == [isNil |-> TRUE, Enabled |-> FALSE, RequireReconnect |-> FALSE]
SingleChoices ==
  {SingleNil} \cup [isNil : {FALSE}, Enabled : BOOLEAN, RequireReconnect : BOOLEAN]

InitState ==
  /\ mu = 0
  /\ activeTasks = EmptyMap
  /\ taskHistory = <<>>
  /\ activeConnections = EmptyMap
  /\ serverProcesses = EmptyMap
  /\ procs = [i \in ProcIds |-> NoProc]
  /\ tasks = <<>>
  /\ pc = [c \in Callers |-> "idle"]
  /\ call = [c \in Callers |-> NoCall]
  /\ slept = 0
  /\ sinceStart = [direction |-> "", age |-> 0]
  /\ last = Returned("new", "nil")
  /\ NewProcessManager
  /\ NewTransferMonitor
  /\ fn = NoFn

Init ==
  /\ \/ \E mc \in 0..MaxConcurrentCfg : NewTransferService(mc)
     \/ \E mc \in 0..MaxConcurrentCfg, dirs \in DirChoices, single \in SingleChoices :
          NewTransferServiceWithConfig(mc, dirs, single)
  /\ InitState

Next ==
  \/ \E c \in Callers, m \in ReqModes, d \in ReqDirections : PrepareTransfer(c, m, d)
  \/ \E c \in Callers, devOK \in BOOLEAN : EnsureBegin(c, devOK)
  \/ \E c \in Callers : EnsureSettle(c)
  \/ \E c \in Callers : PollTick(c)
  \/ \E c \in Callers : PollLocked(c)
  \/ \E c \in Callers : PollTimeout(c)
  \/ \E req \in StartInputs : StartTransfer(req)
  \/ \E id \in TaskIDs : CancelTransfer(id)
  \/ ServiceCleanup
  \/ Tick
  \/ \E i \in ProcIds : ProcessExit(i)

Spec == Init /\ [][Next]_vars

\* The listeners alone: the service as the server builds it, driven by
\* PrepareTransfer and Cleanup.
InitListeners ==
  /\ \/ NewTransferService(MaxConcurrentCfg)
     \/ NewTransferServiceWithConfig(MaxConcurrentCfg, [m \in Modes |-> m # "tmpfs"], SingleNil)
  /\ InitState

NextListeners ==
  \/ \E c \in Callers, m \in ReqModes, d \in ReqDirections : PrepareTransfer(c, m, d)
  \/ \E c \in Callers, devOK \in BOOLEAN : EnsureBegin(c, devOK)
  \/ \E c \in Callers : EnsureSettle(c)
  \/ \E c \in Callers : PollTick(c)
  \/ \E c \in Callers : PollLocked(c)
  \/ \E c \in Callers : PollTimeout(c)
  \/ ServiceCleanup
  \/ Tick
  \/ \E i \in ProcIds : ProcessExit(i)

SpecListeners == InitListeners /\ [][NextListeners]_vars

\* The calls of PrepareTransfer alone, for two of the modes, on a service made
\* by NewTransferService, with the service's Cleanup and the listeners' exits.
NextPrepare ==
  \/ \E c \in Callers, m \in {"hugepages", "tmpfs"} : PrepareTransfer(c, m, "put")
  \/ \E c \in Callers, devOK \in BOOLEAN : EnsureBegin(c, devOK)
  \/ \E c \in Callers : EnsureSettle(c)
  \/ \E c \in Callers : PollTick(c)
  \/ \E c \in Callers : PollLocked(c)
  \/ \E c \in Callers : PollTimeout(c)
  \/ ServiceCleanup
  \/ Tick
  \/ \E i \in ProcIds : ProcessExit(i)

InitPrepare ==
  /\ NewTransferService(MaxConcurrentCfg)
  /\ InitState

SpecPrepare == InitPrepare /\ [][NextPrepare]_vars

\* The same under fair scheduling: time passes, a sleeping or ticking caller
\* goes on, a caller that waits for ts.mu gets it (sync.RWMutex lets no waiter
\* starve), and a select whose timer has fired takes the timer at some turn
\* (the runtime picks among the ready cases at random).
FairSpecPrepare ==
  /\ SpecPrepare
  /\ WF_vars(Tick)
  /\ \A c \in Callers :
       /\ SF_vars(\E devOK \in BOOLEAN : EnsureBegin(c, devOK))
       /\ WF_vars(EnsureSettle(c))
       /\ WF_vars(PollTick(c))
       /\ SF_vars(PollLocked(c))
       /\ SF_vars(PollTimeout(c))

\* The tasks alone: start, cancel and cleanup calls and the passing of time.
InitTasks ==
  /\ \/ \E mc \in 0..MaxConcurrentCfg : NewTransferService(mc)
     \/ \E mc \in 0..MaxConcurrentCfg, single \in SingleChoices :
          NewTransferServiceWithConfig(mc, [m \in Modes |-> TRUE], single)
  /\ InitState

NextTasks ==
  \/ \E req \in StartInputs : StartTransfer(req)
  \/ \E id \in TaskIDs : CancelTransfer(id)
  \/ ServiceCleanup
  \/ Tick

SpecTasks == InitTasks /\ [][NextTasks]_vars

\* One supervisor alone, driven through Start, Stop and Cleanup, with its
\* process and its monitorProcess goroutine.
InitSupervisor ==
  /\ NewTransferService(MaxConcurrentCfg)
  /\ InitState

NextSupervisor ==
  \/ \E role \in Roles, ignores \in BOOLEAN, ok \in BOOLEAN : PMStart(role, ignores, ok)
  \/ \E status \in ExitStatuses : ChildExit(status)
  \/ \E w \in {"worker", "stop"} : WaitReturns(w)
  \/ PMStopBegin
  \/ PMStopDone
  \/ PMStopTimeout
  \/ PMStopKilled
  \/ PMCleanup
  \/ monitorProcessCheck
  \/ monitorProcessWait
  \/ monitorProcessRecord
  \/ SupTick

SpecSupervisor == InitSupervisor /\ [][NextSupervisor]_vars

\* The same with the goroutine of monitorProcess scheduled: each of its steps
\* that stays possible is taken, and a Wait for an ended process returns.
FairSpecSupervisor ==
  /\ SpecSupervisor
  /\ WF_vars(monitorProcessCheck)
  /\ WF_vars(monitorProcessWait)
  /\ WF_vars(WaitReturns("worker"))
  /\ WF_vars(monitorProcessRecord)

\* The supervisor with every goroutine scheduled and time passing: the
\* goroutine of Stop that waits, the cases of Stop's select, the timer, and a
\* process that honours the interrupt ending on it.
FairSpecLocks ==
  /\ FairSpecSupervisor
  /\ WF_vars(WaitReturns("stop"))
  /\ WF_vars(PMStopDone)
  /\ WF_vars(PMStopTimeout)
  /\ WF_vars(PMStopKilled)
  /\ WF_vars(SupTick)
  /\ WF_vars(child.interrupted /\ ~child.ignoresInt
             /\ \E status \in ExitStatuses : ChildExit(status))

\* The functions alone: each is called on the inputs of a bounded set.
InitFunctions ==
  /\ NewTransferService(MaxConcurrentCfg)
  /\ InitState

NextFunctions ==
  \/ \E line \in Lines : CallParseLine(line)
  \/ \E mode \in Modes, role \in {"listener"} \cup Directions : CallBuildFlags(mode, role)
  \/ \E cfg \in ConfigInputs : CallValidateConfig(cfg)
  \/ \E mode \in Modes, role \in {"listener"} \cup Directions, strs \in ArgStrings :
       CallIsServerProcess(mode, role, strs)
  \/ \E path \in Paths, direction \in Directions : CallBuildDirectory(path, direction)
  \/ \E page \in 1..MaxInt, size \in 1..MaxSize : CallListTransfers(page, size)

SpecFunctions == InitFunctions /\ [][NextFunctions]_vars

\* One monitor alone, driven through StartMonitoring and StopMonitoring, with
\* its log file and its monitorLogFile goroutine.
InitMonitor ==
  /\ NewTransferService(MaxConcurrentCfg)
  /\ InitState

NextMonitor ==
  \/ StartMonitoring
  \/ StopMonitoring
  \/ CreateLogFile
  \/ \E line \in FileLines : AppendLine(line)
  \/ monitorSelect
  \/ monitorSleep
  \/ monitorOpen
  \/ monitorInProgress
  \/ monitorLoopStop
  \/ monitorLoopTick
  \/ monitorScan

SpecMonitor == InitMonitor /\ [][NextMonitor]_vars

\* The same with the goroutine of monitorLogFile scheduled and its ticker
\* firing.
FairSpecMonitor ==
  /\ SpecMonitor
  /\ WF_vars(monitorSelect)
  /\ WF_vars(monitorSleep)
  /\ WF_vars(monitorOpen)
  /\ WF_vars(monitorInProgress)
  /\ WF_vars(monitorLoopTick)
  /\ WF_vars(monitorScan)

\* ------------------------------------------------------------------ claims

\* The registry entries whose supervisor reports running.
RunningEntries == {m \in DOMAIN serverProcesses : IsRunning(procs[serverProcesses[m]])}

\* The supervisors whose operating-system process is alive.
AliveProcs(pr) == {i \in ProcIds : pr[i] # NoProc /\ pr[i].os = "alive"}

\* Caller c returns from PrepareTransfer in this step.
PrepareReturns(c) == pc[c] # "idle" /\ pc'[c] = "idle"

\* C1: in every reachable state at most one entry of the listener registry
\* has a supervisor for which IsRunning is true.
C1_AtMostOneListener == Cardinality(RunningEntries) <= 1

\* A prepare call that stopped the listener of another mode is in its settle
\* delay while a second call, for another mode, waits for the lock; one
\* listener is running.
C1_Witness ==
  \E c1, c2 \in Callers :
    /\ pc[c1] = "settle" /\ call[c1].switched
    /\ pc[c2] = "ensure" /\ call[c2].mode # call[c1].mode
    /\ Cardinality(RunningEntries) = 1

\* C2: the number of active tasks never exceeds maxConcurrent, and a start
\* call made with the active set at the limit is rejected with the limit error.
C2_ActiveWithinLimit ==
  /\ Cardinality(DOMAIN activeTasks) <= maxConcurrent
  /\ last.op = "start" /\ last.atLimit => last.result = "limit"

\* A start call was made at the limit and was rejected for it.
C2_Witness == last.op = "start" /\ last.atLimit /\ last.result = "limit"

\* C3: a start call with a valid request that passes admission (and whose
\* target directory can be made) returns a handle, and its task is in the
\* active set and in the history; with single-flight on, the connection key
\* is recorded.
C3_StartAdmitsTask ==
  last.op = "start" /\ last.reached /\ last.result # "mkdir-failed" =>
    /\ last.result = "nil"
    /\ last.task \in Range(taskHistory)
    /\ singleTransfer => getConnectionKeyWithConfig(last.direction) \in DOMAIN activeConnections

\* C4: with single-flight on, a start for the direction of a start that
\* passed the checks less than 10 seconds ago is rejected with the reconnect
\* error, and a valid start for it made after the window is accepted.
C4_SingleFlightWindow ==
  last.op = "start" /\ singleTransfer /\ requireReconnect /\ ~last.atLimit =>
    /\ last.prev = "within" /\ last.valid => last.result = "reconnect"
    /\ last.prev = "after" /\ last.reached /\ last.result # "mkdir-failed" => last.result = "nil"

C6_EnsureIdempotent ==
  [][\A c \in Callers :
       /\ pc[c] = "ensure" /\ pc'[c] # "ensure"
       /\ call[c].mode \in DOMAIN serverProcesses
       /\ procs[serverProcesses[call[c].mode]] = StartedProcess
       => /\ serverProcesses' = serverProcesses
          /\ procs' = procs
          /\ pc'[c] = "poll"]_vars

\* Two calls for the same mode have left ensure with no tick between them
\* and the listener is alive: the settle delay of a spawn would have taken 4
\* ticks of the first one's loop, so the second call has spawned nothing.
C6_Witness ==
  \E c1, c2 \in Callers :
    /\ c1 # c2 /\ call[c1].mode = call[c2].mode
    /\ pc[c1] = "poll" /\ call[c1].elapsed = 0
    /\ pc[c2] = "poll" /\ call[c2].elapsed = 0
    /\ call[c1].mode \in DOMAIN serverProcesses
    /\ procs[serverProcesses[call[c1].mode]] = StartedProcess
    /\ Cardinality(AliveProcs(procs)) = 1

\* The other modes of the registry whose listener is alive when caller c
\* enters ensure.
AliveOthers(c) ==
  {k \in DOMAIN serverProcesses \ {call[c].mode} :
     procs[serverProcesses[k]] = StartedProcess}

\* C7: when ensure spawns the listener of mode A while the listener of
\* another mode B is alive, then after the step the registry holds A alone,
\* A's listener is alive, and B's process is alive no more.
C7_SwitchLeavesOne ==
  [][\A c \in Callers :
       pc[c] = "ensure" /\ pc'[c] = "settle" /\ AliveOthers(c) # {} =>
         /\ DOMAIN serverProcesses' = {call[c].mode}
         /\ procs'[serverProcesses'[call[c].mode]] = StartedProcess
         /\ Cardinality(AliveProcs(procs')) =
              Cardinality(AliveProcs(procs)) - Cardinality(AliveOthers(c)) + 1]_vars

\* A call has just stopped another mode's listener and spawned its own.
C7_Witness ==
  \E c \in Callers :
    /\ pc[c] = "settle" /\ call[c].switched /\ slept = 0
    /\ DOMAIN serverProcesses = {call[c].mode}

\* C8: when the listener a call has spawned has exited by the time of the
\* check after the settle delay, the call returns the early-exit error.
C8_EarlyExitDetected ==
  [][\A c \in Callers :
       pc[c] = "settle" /\ pc'[c] # "settle" /\ procs[call[c].pm].os # "alive" =>
         pc'[c] = "idle" /\ last'.result = "early-exit"]_vars

\* The results that report an invalid configuration or a refused admission.
Rejections ==
  {"invalid-config", "unsupported-mode", "unsupported-direction", "limit", "reconnect"}

\* C9: a prepare or start call that returns a configuration or admission
\* error leaves the active set, the history, the connection keys, the
\* registry and the listener processes as they were.
C9_RejectionChangesNothing ==
  [][(/\ \/ last' # last
         \/ \E c \in Callers : PrepareReturns(c)
      /\ last'.op \in {"prepare", "start"}
      /\ last'.result \in Rejections)
     => UNCHANGED <<activeTasks, taskHistory, activeConnections, serverProcesses, procs>>]_vars

\* C11: a cancel call for a task ID that is not in the active set returns the
\* not-found error and leaves the active set, the history, the listener
\* registry, the connection keys, every wrapper (status, monitor, process)
\* and every supervisor as they were.
C11_UnknownCancelChangesNothing ==
  [][\A id \in TaskIDs :
       CancelTransfer(id) /\ id \notin DOMAIN activeTasks =>
         /\ last'.result = "not-found"
         /\ UNCHANGED <<activeTasks, taskHistory, serverProcesses, activeConnections,
                        tasks, procs>>]_vars

\* A cancel call returned not-found while the wrapper of a start that failed
\* still has its monitor worker.
C11_Witness ==
  /\ last = Returned("cancel", "not-found")
  /\ \E i \in DOMAIN tasks : tasks[i].worker /\ tasks[i].isMonitoring

\* The statuses after which a task is finished (IsFinished).
Terminal == {"completed", "failed", "cancelled"}

\* C12: a wrapper whose task status is completed, failed or cancelled keeps
\* that status in every later step.
C12_TerminalIsFinal ==
  [][\A i \in DOMAIN tasks :
       tasks[i].Status \in Terminal =>
         i \in DOMAIN tasks' /\ tasks'[i].Status = tasks[i].Status]_vars

\* A cleanup call has returned while a failed task exists.
C12_Witness ==
  /\ last.op = "cleanup"
  /\ \E i \in DOMAIN tasks : tasks[i].Status = "failed"

\* C20: when a cleanup call of the service returns, the active set, the
\* listener registry and the connection keys are empty, and every task that
\* was in the active set has the status cancelled and a monitor that no
\* longer monitors.
C20_CleanupEmptiesAll ==
  [][last'.op = "cleanup" /\ last.op # "cleanup" =>
       /\ activeTasks' = EmptyMap
       /\ serverProcesses' = EmptyMap
       /\ activeConnections' = EmptyMap
       /\ \A i \in Range(activeTasks) :
            tasks'[i].Status = "cancelled" /\ ~tasks'[i].isMonitoring]_vars

\* A cleanup call has returned with a listener it had in the registry still
\* alive in the operating system: the registry was not empty when it began.
C20_Witness ==
  /\ last.op = "cleanup"
  /\ serverProcesses = EmptyMap
  /\ \E i \in AliveProcs(procs) : ~procs[i].hasProcess /\ procs[i].State = "stopped"

\* C14: when a Stop call made on a process that was alive and recorded as
\* running has returned, with or without an error, the recorded state is
\* stopped or error and an exit time is recorded.
C14_StopLeavesExitTime ==
  supLast.op = "stop" /\ supLast.onAlive =>
    pmInfo.State \in {"stopped", "error"} /\ pmInfo.ExitTime # "nil"

\* C15: Stop sends the interrupt to a live process when it begins, kills it
\* only once the 10-second grace has run out, and for a process that ignores
\* the interrupt returns with the state stopped or error and the process
\* ended.
C15_InterruptGraceKill ==
  [][/\ stopCall.pc = "idle" /\ stopCall'.pc = "waiting" /\ child.os = "alive" =>
          child'.interrupted /\ ~child'.forced
     /\ child'.forced /\ ~child.forced =>
          child.interrupted /\ stopCall.elapsed = StopGraceTicks
     /\ stopCall.pc # "idle" /\ stopCall'.pc = "idle"
          /\ stopCall.onAlive /\ child.ignoresInt =>
            pmInfo'.State \in {"stopped", "error"} /\ child'.os \in {"zombie", "reaped"}]_vars

\* Stop has returned nil for a process that ignored the interrupt and that
\* it killed.
C15_Witness ==
  /\ supLast = SupReturned("stop", "nil", TRUE)
  /\ child.ignoresInt /\ child.interrupted /\ child.forced
  /\ pmInfo.State = "stopped"

\* C16: IsRunning is true only if the state is running, no exit time is
\* recorded and the probe succeeds; and once the process has been killed
\* from outside, IsRunning is false although the state is still running.
C16_IsRunningFollowsProcess ==
  PMUnlocked =>
    /\ IsRunning(PMView) =>
         pmInfo.State = "running" /\ pmInfo.ExitTime = "nil" /\ Probe(child.os)
    /\ pmInfo.State = "running" /\ child.os \in {"zombie", "reaped"}
         /\ child.status = "signal" /\ ~child.forced =>
           ~IsRunning(PMView)

\* C17: once the recorded state of a started supervisor is stopped or error,
\* no step changes the state, the exit time, the exit code or the error text.
C17_TerminalInfoIsFinal ==
  [][pmInfo.State \in {"stopped", "error"} /\ child.os # "none" =>
       /\ pmInfo'.State = pmInfo.State
       /\ pmInfo'.ExitTime = pmInfo.ExitTime
       /\ pmInfo'.ExitCode = pmInfo.ExitCode
       /\ pmInfo'.Error = pmInfo.Error]_vars

\* C18: when a transfer process has ended and neither Stop nor Cleanup is
\* called, monitorProcess eventually records the exit time and the state
\* stopped for a clean exit, or error with the exit code otherwise.
C18_OwnExitRecorded ==
  (child.role = "transfer" /\ child.os \in {"zombie", "reaped"} /\ supCalled = {})
    ~> \/ supCalled # {}
       \/ /\ pmInfo.ExitTime = "worker"
          /\ pmInfo.State = (IF child.status = "clean" THEN "stopped" ELSE "error")
          /\ child.status # "clean" => pmInfo.ExitCode # "nil"

\* monitorProcess has recorded the exit of a process ended by a signal, with
\* no Stop and no Cleanup.
C18_Witness ==
  /\ supCalled = {}
  /\ child.status = "signal"
  /\ pmInfo.ExitTime = "worker" /\ pmInfo.State = "error" /\ pmInfo.ExitCode = "-1"

\* C19: when Cleanup has returned for a process that was alive and recorded
\* as running and that ignores the interrupt, the interrupt has been sent and
\* the process is no longer alive.
C19_CleanupEndsProcess ==
  supLast.op = "cleanup" /\ supLast.onAlive /\ child.ignoresInt =>
    child.interrupted /\ child.os # "alive"

\* C21: while the monitor is monitoring and the log file does not exist, the
\* worker has not given up and the status is starting.
C21_WaitsForLogFile ==
  monitor.isMonitoring /\ ~logFile.exists =>
    monitor.Status = "starting" /\ mworker.pc # "done"

\* C22: whenever the worker is in its scan loop, the monitor is not stopped
\* and the file holds lines the worker has not scanned, the worker
\* eventually has scanned every line of the file (or the monitor is stopped).
C22_AppendedLinesScanned ==
  (mworker.pc \in {"loop", "scan"} /\ ~monitor.stopClosed
     /\ mworker.offset < Len(logFile.lines))
    ~> (mworker.offset = Len(logFile.lines) \/ monitor.stopClosed)

\* The exponent of 1024 of a unit, whatever the case of its letters.
UnitPower(unit) ==
  CASE unit \in {"KB", "kb", "Kb", "kB"} -> 1
    [] unit \in {"MB", "mb", "Mb", "mB"} -> 2
    [] unit \in {"GB", "gb", "Gb", "gB"} -> 3
    [] OTHER -> 0

\* The number n * 1024^k as an integer of six limbs, wide enough for every
\* non-negative int64 n and k <= 3.
RECURSIVE Times1024(_, _)
Times1024(n, k) == IF k = 0 THEN n ELSE Times1024(MulCarry(n, 0), k - 1)
Bytes(n, unit) == Times1024(n \o <<0, 0>>, UnitPower(unit))

\* An int64 as an integer of six limbs, with its sign.
Widen(v) == v \o (IF v[4] < Limb \div 2 THEN <<0, 0>> ELSE <<Limb - 1, Limb - 1>>)

\* C23 as claimed: ParseLine yields failed with the trimmed line for a line
\* with an error word, else completed with percent 100 for a line with a
\* completion word, else in_progress with the parsed counters for a line
\* that matches the progress pattern, else no event and no error.
C23_ParseLinePriority ==
  fn.op = "ParseLine" =>
    LET line == fn.arg
        r == fn.ret
        m == progressRegex(line)
    IN IF errorRegex(line)
       THEN r.err = "nil" /\ ~r.info.isNil /\ r.info.Status = "failed"
            /\ r.info.Error = TrimSpace(line)
       ELSE IF completeRegex(line)
       THEN r.err = "nil" /\ ~r.info.isNil /\ r.info.Status = "completed"
            /\ r.info.ProgressPercent = 100
       ELSE IF m # <<>>
       THEN r.err = "nil" /\ ~r.info.isNil /\ r.info.Status = "in_progress"
       ELSE r.err = "nil" /\ r.info.isNil

\* C23 amended: as above, but a line that matches the progress pattern yields
\* in_progress with the counters in bytes (in 64 bits) and the percent only
\* if its numbers can be parsed; if one cannot, it yields an error and no
\* event.
C23_ParseLinePriorityParsed ==
  fn.op = "ParseLine" =>
    LET line == fn.arg
        r == fn.ret
        m == progressRegex(line)
    IN IF errorRegex(line)
       THEN r.err = "nil" /\ ~r.info.isNil /\ r.info.Status = "failed"
            /\ r.info.Error = TrimSpace(line)
       ELSE IF completeRegex(line)
       THEN r.err = "nil" /\ ~r.info.isNil /\ r.info.Status = "completed"
            /\ r.info.ProgressPercent = 100
       ELSE IF m # <<>>
       THEN IF m[1] \in {"0", "1", "2", "9007199254740992"} /\ m[3] \in {"0", "1", "2"}
               /\ m[5] \in {"0", "50", "100"}
            THEN /\ r.err = "nil" /\ ~r.info.isNil /\ r.info.Status = "in_progress"
                 /\ r.info.BytesTransferred = SubSeq(Bytes(ParseInt(m[1]), m[2]), 1, 4)
                 /\ r.info.TotalBytes = SubSeq(Bytes(ParseInt(m[3]), m[4]), 1, 4)
                 /\ r.info.ProgressPercent = ParseFloat(m[5])
            ELSE r.err # "nil" /\ r.info.isNil
       ELSE r.err = "nil" /\ r.info.isNil

\* ParseLine was called on a line that holds an error word and a progress
\* phrase, and returned failed with the line as error text.
C23_Witness ==
  /\ fn.op = "ParseLine"
  /\ errorRegex(fn.arg) /\ progressRegex(fn.arg) # <<>>
  /\ fn.ret.info.Status = "failed" /\ fn.ret.info.Error = fn.arg

\* C24: once the status is completed, or failed because of a log line, the
\* scan of a later line leaves the status as it is.
C24_LineVerdictIsFinal ==
  [][/\ mworker.pc = "scan"
     /\ \/ monitor.Status = "completed"
        \/ monitor.Status = "failed" /\ monitor.Error # <<"open-failed">>
     => monitor'.Status = monitor.Status]_vars

\* C25: once StopMonitoring has closed the stop channel, no step of the
\* worker changes the progress of the monitor: a status cancelled stays, and
\* the status does not become in_progress.
C25_StopFreezesProgress ==
  [][(/\ monitor.stopClosed
      /\ \/ monitorSelect \/ monitorSleep \/ monitorOpen \/ monitorInProgress
         \/ monitorLoopStop \/ monitorLoopTick \/ monitorScan)
     => monitor' = monitor]_vars

\* The disable-large-pages and use-mmap flags of the table, per mode and role.
FlagTable(mode, role) ==
  CASE mode = "hugepages" -> IF role = "listener" THEN <<FALSE, FALSE>> ELSE <<TRUE, TRUE>>
    [] mode = "tmpfs" -> IF role = "listener" THEN <<TRUE, TRUE>> ELSE <<FALSE, TRUE>>
    [] OTHER -> IF role = "listener" THEN <<TRUE, FALSE>> ELSE <<FALSE, FALSE>>

\* C26: for every mode and role the flags of the built configuration and
\* the presence of --nohuge and --mman on the command line equal the table.
C26_FlagsMatchTable ==
  fn.op = "flags" =>
    LET t == FlagTable(fn.arg[1], fn.arg[2])
    IN /\ fn.ret.NoHuge = t[1]
       /\ fn.ret.MMan = t[2]
       /\ ("--nohuge" \in fn.ret.args) = t[1]
       /\ ("--mman" \in fn.ret.args) = t[2]

\* C27: ValidateConfig accepts a configuration exactly if device, directory
\* and log file are non-empty, the mode is one of the three, and the
\* direction is empty or is put or get with a peer address and a file name.
C27_ValidateAcceptsIff ==
  fn.op = "ValidateConfig" =>
    LET c == fn.arg
    IN (fn.ret = "nil") =
         /\ c.Device /\ c.Directory /\ c.LogFile
         /\ c.Mode \in {"hugepages", "tmpfs", "filesystem"}
         /\ \/ c.Direction = ""
            \/ c.Direction \in {"put", "get"} /\ c.ServerAddress /\ c.Filename

\* ValidateConfig rejected a put configuration that lacks only the file name.
C27_Witness ==
  /\ fn.op = "ValidateConfig"
  /\ fn.arg.Device /\ fn.arg.Directory /\ fn.arg.LogFile /\ fn.arg.Mode = "tmpfs"
  /\ fn.arg.Direction = "put" /\ fn.arg.ServerAddress /\ ~fn.arg.Filename
  /\ fn.ret # "nil"

\* The directory component of a path: what precedes its last slash, the root
\* for a file directly under the root, "." for a path without a slash.
DirectoryComponent(path) ==
  IF LastSlash(path) = 0 THEN <<".">>
  ELSE IF LastSlash(path) = 1 THEN <<"/">>
  ELSE SubSeq(path, 1, LastSlash(path) - 1)

\* C28: for a filesystem put the working directory is the directory
\* component of the file path, for every path; for a filesystem get it is
\* the configured base directory.
C28_PutDirectoryOfFile ==
  fn.op = "directory" =>
    fn.ret = IF fn.arg.direction = "put" THEN DirectoryComponent(fn.arg.path)
             ELSE FilesystemBaseDir

\* C29: for every page >= 1 and size >= 1 ListTransfers returns the entries
\* of the history at the offsets (page-1)*size .. min(page*size, total)-1,
\* in order, and the total.
C29_ListReturnsPage ==
  fn.op = "ListTransfers" =>
    LET total == Len(taskHistory)
        first == (fn.arg.page - 1) * fn.arg.size + 1
        lastIx == Min(fn.arg.page * fn.arg.size, total)
    IN /\ ~fn.ret.panic
       /\ fn.ret.Total = total
       /\ fn.ret.Tasks = SubSeq(taskHistory, first, lastIx)

\* C30: under fair scheduling every call that has begun returns: a caller
\* inside PrepareTransfer (waiting for the lock, in the settle delay, in the
\* readiness loop or waiting for the read lock) is back outside it later,
\* whatever the other callers and the listeners do.
C30_CallsReturn == \A c \in Callers : (pc[c] # "idle") ~> (pc[c] = "idle")

\* A readiness loop was ended by its deadline while another call still holds
\* the lock for its settle delay.
C30_Witness ==
  /\ last = Returned("prepare", "timeout")
  /\ \E c \in Callers : pc[c] = "settle"

\* C31: no caller holds ts.mu while it waits: not in the settle delay of
\* ensureServerProcessStarted and not in the readiness loop.
C31_NoLockAcrossWait ==
  \A c \in Callers : pc[c] \in {"settle", "poll", "rlock"} => mu # c

\* C40: the tasks created by start have pairwise distinct IDs, also when two
\* of them are created at the same reading of the clock.
C40_TaskIDsDistinct ==
  \A i, j \in DOMAIN tasks : i # j => tasks[i].ID # tasks[j].ID

\* The handler CreateTransfer in server mode, after the call of
\* PrepareTransfer has returned prepared: the response it writes.  It makes no
\* other call of the service.  now is the reading of the clock in seconds.
CreateTransfer(prepared, now) ==
  IF prepared # "nil"
  THEN [code |-> 500, ID |-> <<>>, Status |-> "PREPARE_ERROR"]
  ELSE [code |-> 201, ID |-> <<"prepared", now>>, Status |-> "prepared"]

\* GetTransferStatus: the task of the active set, else the task of the
\* history, else the error.
GetTransferStatus(taskID) ==
  IF taskID \in DOMAIN activeTasks THEN "active"
  ELSE IF \E i \in DOMAIN taskHistory : tasks[taskHistory[i]].ID = taskID THEN "history"
  ELSE "not-found"

\* C32: after a create-transfer request whose preparation succeeded, the
\* service holds a transfer task and the ID of the response can be queried
\* with GetTransferStatus.
C32_CreateRunsBothPhases ==
  last = Returned("prepare", "nil") =>
    \A now \in ClockReadings :
      LET response == CreateTransfer(last.result, now)
      IN /\ response.code = 201
         /\ activeTasks # EmptyMap
         /\ GetTransferStatus(response.ID) # "not-found"

\* C33: for every progress line the parser accepts, the two counters are the
\* counts multiplied by 1024 to the power of their units (B 0, KB 1, MB 2,
\* GB 3, in any letter case), as integers, without wrap-around.
C33_CountersInBytes ==
  fn.op = "ParseLine" =>
    LET m == progressRegex(fn.arg)
        r == fn.ret
    IN (r.err = "nil" /\ ~r.info.isNil /\ r.info.Status = "in_progress") =>
         /\ Widen(r.info.BytesTransferred) = Bytes(ParseInt(m[1]), m[2])
         /\ Widen(r.info.TotalBytes) = Bytes(ParseInt(m[3]), m[4])

\* C34: a command is classified as listener exactly when it was built by the
\* listener argument builder, whatever its device, directory, peer address,
\* log path and file name are.
C34_ListenerIffBuiltAsListener ==
  fn.op = "isServerProcess" => (fn.ret <=> fn.arg[2] = "listener")

\* C35: whatever the sequence of StartMonitoring and StopMonitoring calls on
\* a monitor, no call panics: the stop channel is closed at most once.
C35_StopClosesOnce == ~monitor.panicked

\* C36: every wrapper whose monitor worker is running is the wrapper of a
\* task of the active set.
C36_WorkersBelongToActiveTasks ==
  \A i \in DOMAIN tasks : tasks[i].worker => i \in Range(activeTasks)

\* C37: every listener process that is alive is the process of a supervisor
\* of the registry: an entry leaves the registry only after its process has
\* ended.
C37_NoOrphanListener ==
  \A i \in ProcIds :
    (procs[i] # NoProc /\ procs[i].os = "alive") => i \in Range(serverProcesses)

====
